---------------------------- MODULE Spec2Model ----------------------------
(***************************************************************************)
(* vtrenderlib: a Braille-cell vector rasterizer for ANSI terminals.       *)
(*                                                                         *)
(* The module models the canvas object of src/vtrenderlib.c (both the      *)
(* POSIX and the Windows build), the terminal it writes to, the            *)
(* rasterization kernels with their single-precision arithmetic, and the   *)
(* frame differ with the byte stream it emits.                             *)
(***************************************************************************)
EXTENDS Integers, Sequences, FiniteSets, TLC

(***************************************************************************)
(* Single-precision arithmetic.                                            *)
(*                                                                         *)
(* A finite float is [m |-> mantissa, e |-> exponent], value m * 2^e, with *)
(* m = 0 /\ e = 0 or 2^23 <= |m| < 2^24, so that equal values have equal   *)
(* records.  Every operation rounds to nearest, ties to even, as IEEE 754  *)
(* binary32 does; intermediate integers stay below 2^31.                   *)
(***************************************************************************)
P2Tab == [n \in 0..30 |-> 2^n]

P2(n) == P2Tab[n]

Abs(a) == IF a < 0 THEN -a ELSE a

Sgn(a) == IF a < 0 THEN -1 ELSE IF a > 0 THEN 1 ELSE 0

\* The number of bits of a byte.
BitTab ==
    [n \in 0..255 |->
       IF n >= 128 THEN 8 ELSE IF n >= 64 THEN 7 ELSE IF n >= 32 THEN 6
       ELSE IF n >= 16 THEN 5 ELSE IF n >= 8 THEN 4 ELSE IF n >= 4 THEN 3
       ELSE IF n >= 2 THEN 2 ELSE n]

\* The number of bits of a, 0 <= a < 2^31.
RECURSIVE BitLen(_)
BitLen(a) == IF a >= 256 THEN 8 + BitLen(a \div 256) ELSE BitTab[a]

FZero == [m |-> 0, e |-> 0]

\* The float nearest to sign * (a + sticky * epsilon) * 2^E for a of n bits,
\* 0 < a < 2^31.
FRoundBits(sign, a, E, sticky, n) ==
    IF n <= 24
    THEN [m |-> sign * a * P2(24 - n), e |-> E - (24 - n)]
    ELSE LET k    == n - 24
             q    == a \div P2(k)
             r    == a % P2(k)
             half == P2(k - 1)
             up   == (r > half) \/ (r = half /\ (sticky \/ q % 2 = 1))
             m1   == IF up THEN q + 1 ELSE q
         IN IF m1 = P2(24)
            THEN [m |-> sign * P2(23), e |-> E + k + 1]
            ELSE [m |-> sign * m1, e |-> E + k]

\* The float nearest to sign * (a + sticky * epsilon) * 2^E, 0 <= a < 2^31.
FRound(sign, a, E, sticky) ==
    IF a = 0 THEN FZero ELSE FRoundBits(sign, a, E, sticky, BitLen(a))

\* (float)n for an int n.
IntToF(n) == FRound(Sgn(n), Abs(n), 0, FALSE)

FNeg(x) == [m |-> -(x.m), e |-> x.e]

\* x + y: the smaller operand is shifted right behind three extra bits, the
\* bits shifted out jammed into the last one.
FAdd(x, y) ==
    IF x.m = 0 THEN y
    ELSE IF y.m = 0 THEN x
    ELSE LET hi == IF x.e >= y.e THEN x ELSE y
             lo == IF x.e >= y.e THEN y ELSE x
             d  == hi.e - lo.e
             A  == hi.m * 8
             b8 == Abs(lo.m) * 8
             B  == IF d > 27 THEN 1
                   ELSE (b8 \div P2(d)) + (IF (b8 % P2(d)) # 0 /\ (b8 \div P2(d)) % 2 = 0 THEN 1 ELSE 0)
             S  == A + Sgn(lo.m) * B
         IN FRound(Sgn(S), Abs(S), hi.e - 3, FALSE)

FSub(x, y) == FAdd(x, FNeg(y))

\* x * y: the 48-bit product of the mantissas from 12-bit halves.
FMul(x, y) ==
    IF x.m = 0 \/ y.m = 0 THEN FZero
    ELSE LET a   == Abs(x.m)
             b   == Abs(y.m)
             ah  == a \div 4096
             al  == a % 4096
             bh  == b \div 4096
             bl  == b % 4096
             low == al * bl
             mid == ah * bl + al * bh
             t   == low + (mid % 4096) * 4096
             P0  == t % P2(24)
             P1  == ah * bh + (mid \div 4096) + (t \div P2(24))
         IN FRound(Sgn(x.m) * Sgn(y.m), P1 * 64 + (P0 \div P2(18)),
                   x.e + y.e + 18, (P0 % P2(18)) # 0)

\* x / y, y # 0: 26 quotient bits by long division, six bits at a time.
FDiv(x, y) ==
    IF x.m = 0 THEN FZero
    ELSE LET a  == Abs(x.m)
             b  == Abs(y.m)
             q0 == a \div b
             r0 == a % b
             q1 == (r0 * 64) \div b
             r1 == (r0 * 64) % b
             q2 == (r1 * 64) \div b
             r2 == (r1 * 64) % b
             q3 == (r2 * 64) \div b
             r3 == (r2 * 64) % b
             q4 == (r3 * 64) \div b
             r4 == (r3 * 64) % b
             q5 == (r4 * 4) \div b
             r5 == (r4 * 4) % b
             Q  == ((((q0 * 64 + q1) * 64 + q2) * 64 + q3) * 64 + q4) * 4 + q5
         IN FRound(Sgn(x.m) * Sgn(y.m), Q, x.e - y.e - 26, r5 # 0)

FLt(x, y) == FSub(x, y).m < 0

FLe(x, y) == FSub(x, y).m <= 0

\* The MIN and MAX macros on floats.
FMin(x, y) == IF FLt(x, y) THEN x ELSE y

FMax(x, y) == IF FLt(y, x) THEN x ELSE y

\* (int)x: truncation toward zero (|x| < 2^30).
FTrunc(x) ==
    IF x.e >= 0 THEN x.m * P2(x.e)
    ELSE IF -(x.e) > 24 THEN 0
    ELSE Sgn(x.m) * (Abs(x.m) \div P2(-(x.e)))

\* roundf(x) as an integer: nearest, halves away from zero (|x| < 2^30).
FRoundf(x) ==
    IF x.e >= 0 THEN x.m * P2(x.e)
    ELSE IF -(x.e) > 24 THEN 0
    ELSE LET k == -(x.e)
             a == Abs(x.m)
             q == a \div P2(k)
             r == a % P2(k)
         IN Sgn(x.m) * (IF r >= P2(k - 1) THEN q + 1 ELSE q)

FMinusHalf == [m |-> -(P2(23)), e |-> -24]

(***************************************************************************)
(* Stencil buffers and the plot kernel.                                    *)
(***************************************************************************)
VT_CELL_YDOTS == 4

VT_CELL_XDOTS == 2

VTR_COLOR_DEFAULT == 0

VTR_COLOR_RED == 2

VTR_COLOR_GREEN == 3

VTR_COLOR_BLUE == 5

VTR_COLOR_TOTAL == 9

Colors == 0..(VTR_COLOR_TOTAL - 1)

U16 == 65536

\* An int converted to uint16_t.
ToU16(n) == n % U16

NULL == 0

\* A stencil whose arrays were taken from the heap without being zeroed.
DirtyStencil(rows, cols, ptr) ==
    [ydots       |-> (rows * VT_CELL_YDOTS) % U16,
     xdots       |-> (cols * VT_CELL_XDOTS) % U16,
     buffer      |-> [i \in 0..(rows * cols - 1) |-> 1],
     fgcolors    |-> [i \in 0..(rows * cols - 1) |-> 0],
     textoverlay |-> [i \in 0..(rows * cols - 1) |-> 0],
     ptr         |-> ptr]

\* struct vtr_stencil_buf after a successful create_stencil_buf: three zeroed
\* arrays of rows * cols bytes, indexed from 0.  ptr holds the addresses of
\* the three blocks, the other fields what they contain.
ZeroedStencil(rows, cols, ptr) ==
    [ydots       |-> (rows * VT_CELL_YDOTS) % U16,
     xdots       |-> (cols * VT_CELL_XDOTS) % U16,
     buffer      |-> [i \in 0..(rows * cols - 1) |-> 0],
     fgcolors    |-> [i \in 0..(rows * cols - 1) |-> 0],
     textoverlay |-> [i \in 0..(rows * cols - 1) |-> 0],
     ptr         |-> ptr]

NoPtr == [buffer |-> NULL, fgcolors |-> NULL, textoverlay |-> NULL]

\* The bit added to the byte instead of being or-ed into it.
BitAdd(m, bit) == (m + bit) % 256

\* m | bit for a byte m and a one-bit byte.
BitOr(m, bit) == IF (m \div bit) % 2 = 1 THEN m ELSE m + bit

\* A kernel works on k = [sb, dots, fault]: the stencil it writes, the dots
\* handed to render_dot so far, and the assertion that failed ("" for none;
\* a failed assertion aborts the process, so nothing is plotted after it).
Kernel(sb) == [sb |-> sb, dots |-> {}, fault |-> ""]

\* The colour of a cell kept from the first dot drawn in it.
render_dot_first_colour(k, x, y, fgc) ==
    IF k.fault # "" THEN k
    ELSE IF ~(x < k.sb.xdots /\ y < k.sb.ydots)
    THEN [k EXCEPT !.fault = "assert render_dot", !.dots = @ \cup {<<x, y>>}]
    ELSE LET row     == y \div VT_CELL_YDOTS
             col     == x \div VT_CELL_XDOTS
             ncols   == k.sb.xdots \div VT_CELL_XDOTS
             stencil == P2(y % VT_CELL_YDOTS) * P2((x % VT_CELL_XDOTS) * 4)
             idx     == row * ncols + col
         IN [k EXCEPT !.sb.buffer[idx]   = BitOr(@, stencil),
                      !.sb.fgcolors[idx] = IF k.sb.buffer[idx] = 0 THEN fgc ELSE @,
                      !.dots             = @ \cup {<<x, y>>}]

\* The dots of a cell numbered row by row instead of column by column.
render_dot_by_rows(k, x, y, fgc) ==
    IF k.fault # "" THEN k
    ELSE IF ~(x < k.sb.xdots /\ y < k.sb.ydots)
    THEN [k EXCEPT !.fault = "assert render_dot", !.dots = @ \cup {<<x, y>>}]
    ELSE LET row     == y \div VT_CELL_YDOTS
             col     == x \div VT_CELL_XDOTS
             ncols   == k.sb.xdots \div VT_CELL_XDOTS
             stencil == P2((y % VT_CELL_YDOTS) * VT_CELL_XDOTS + (x % VT_CELL_XDOTS))
             idx     == row * ncols + col
         IN [k EXCEPT !.sb.buffer[idx]   = BitOr(@, stencil),
                      !.sb.fgcolors[idx] = fgc,
                      !.dots             = @ \cup {<<x, y>>}]

render_dot(k, x, y, fgc) ==
    IF k.fault # "" THEN k
    ELSE IF ~(x < k.sb.xdots /\ y < k.sb.ydots)
    THEN [k EXCEPT !.fault = "assert render_dot", !.dots = @ \cup {<<x, y>>}]
    ELSE LET row     == y \div VT_CELL_YDOTS
             col     == x \div VT_CELL_XDOTS
             ncols   == k.sb.xdots \div VT_CELL_XDOTS
             stencil == P2(y % VT_CELL_YDOTS) * P2((x % VT_CELL_XDOTS) * 4)
             idx     == row * ncols + col
         IN [k EXCEPT !.sb.buffer[idx]   = BitOr(@, stencil),
                      !.sb.fgcolors[idx] = fgc,
                      !.dots             = @ \cup {<<x, y>>}]

\* The byte put into the first row whatever the row is.
print_char_row0(sb, row, col, c) ==
    [sb EXCEPT !.textoverlay[col] = c]

print_char(sb, row, col, c) ==
    LET ncols == sb.xdots \div VT_CELL_XDOTS
    IN [sb EXCEPT !.textoverlay[row * ncols + col] = c]

\* The test with the far edges let in.
point_test_inclusive(xdots, ydots, x, y) ==
    (x >= 0 /\ x <= xdots) /\ (y >= 0 /\ y <= ydots)

point_test(xdots, ydots, x, y) ==
    (x >= 0 /\ x < xdots) /\ (y >= 0 /\ y < ydots)

\* vtr_render_dotc on the kernel state of the current stencil.
vtr_render_dotc(k, xdots, ydots, x, y, fgc) ==
    IF point_test(xdots, ydots, x, y) THEN render_dot(k, x, y, fgc) ELSE k

(***************************************************************************)
(* Line scan.                                                              *)
(***************************************************************************)
\* calc_slope: inf stands for INFINITY, returned exactly when x1 = x0.
calc_slope(x0, y0, x1, y1) ==
    IF x1 = x0 THEN [inf |-> TRUE, v |-> FZero]
    ELSE [inf |-> FALSE,
          v   |-> FDiv(FSub(IntToF(y1), IntToF(y0)), FSub(IntToF(x1), IntToF(x0)))]

FOne == IntToF(1)

RECURSIVE ScanH(_, _, _, _, _, _)
ScanH(k, x, y0, stop, hdir, fgc) ==
    IF x = stop THEN k
    ELSE ScanH(render_dot(k, ToU16(x), y0, fgc), x + hdir, y0, stop, hdir, fgc)

RECURSIVE ScanV(_, _, _, _, _, _)
ScanV(k, x0, y, stop, vdir, fgc) ==
    IF y = stop THEN k
    ELSE ScanV(render_dot(k, x0, ToU16(y), fgc), x0, y + vdir, stop, vdir, fgc)

\* The diagonal scan without its vertical step.
ScanDFlat(k, x, y, stop, hdir, vdir, fgc) == ScanH(k, x, y, stop, hdir, fgc)

RECURSIVE ScanD(_, _, _, _, _, _, _)
ScanD(k, x, y, stop, hdir, vdir, fgc) ==
    IF x = stop THEN k
    ELSE ScanD(render_dot(k, ToU16(x), ToU16(y), fgc), x + hdir, y + vdir, stop,
               hdir, vdir, fgc)

\* The generic slope, |m| < 1: x is scanned, y = roundf(m * (x - x1) + y1).
RECURSIVE ScanShallow(_, _, _, _, _, _, _, _, _, _)
ScanShallow(k, x, y, yf, m, x1, y1, stop, hdir, fgc) ==
    IF x = stop THEN k
    ELSE LET k1  == render_dot(k, ToU16(x), ToU16(y), fgc)
             k2  == IF FSub(yf, IntToF(y)) = FMinusHalf
                    THEN render_dot(k1, ToU16(x), ToU16(y - 1), fgc)
                    ELSE k1
             nx  == x + hdir
             nyf == FAdd(FMul(m, FSub(IntToF(nx), IntToF(x1))), IntToF(y1))
         IN ScanShallow(k2, nx, FRoundf(nyf), nyf, m, x1, y1, stop, hdir, fgc)

\* The generic slope, |m| > 1: y is scanned, x = roundf((y - y1) / m + x1).
RECURSIVE ScanSteep(_, _, _, _, _, _, _, _, _, _)
ScanSteep(k, x, y, xf, m, x1, y1, stop, vdir, fgc) ==
    IF y = stop THEN k
    ELSE LET k1  == render_dot(k, ToU16(x), ToU16(y), fgc)
             k2  == IF FSub(xf, IntToF(x)) = FMinusHalf
                    THEN render_dot(k1, ToU16(x - 1), ToU16(y), fgc)
                    ELSE k1
             ny  == y + vdir
             nxf == FAdd(FDiv(FSub(IntToF(ny), IntToF(y1)), m), IntToF(x1))
         IN ScanSteep(k2, FRoundf(nxf), ny, nxf, m, x1, y1, stop, vdir, fgc)

\* The branches of scan_line on the slope m.
ScanSlope(k, x0, y0, x1, y1, fgc, m) ==
    LET hdir == IF x0 < x1 THEN 1 ELSE -1
        vdir == IF y0 < y1 THEN 1 ELSE -1
    IN IF ~m.inf /\ m.v = FZero
       THEN ScanH(k, x0, y0, x1 + hdir, hdir, fgc)
       ELSE IF m.inf
       THEN ScanV(k, x0, y0, y1 + vdir, vdir, fgc)
       ELSE IF m.v = FNeg(FOne) \/ m.v = FOne
       THEN ScanD(k, x0, y0, x1 + hdir, hdir, vdir, fgc)
       ELSE IF FLt(FNeg(FOne), m.v) /\ FLt(m.v, FOne)
       THEN ScanShallow(k, x0, y0, FZero, m.v, x1, y1, x1 + hdir, hdir, fgc)
       ELSE ScanSteep(k, x0, y0, FZero, m.v, x1, y1, y1 + vdir, vdir, fgc)

\* scan_line on uint16_t endpoints.
scan_line(k, x0, y0, x1, y1, fgc) ==
    IF k.fault # "" THEN k
    ELSE IF ~(x0 < k.sb.xdots /\ x1 < k.sb.xdots /\ y0 < k.sb.ydots /\ y1 < k.sb.ydots)
    THEN [k EXCEPT !.fault = "assert scan_line"]
    ELSE ScanSlope(k, x0, y0, x1, y1, fgc, calc_slope(x0, y0, x1, y1))

\* A float holding an integer n converted to uint16_t.  Outside 0..65535 the
\* conversion is undefined: conv = "wrap" is the truncating conversion followed
\* by a 16-bit store, conv = "sat" the saturating conversion instruction.
FloatToU16(n, conv) ==
    IF 0 <= n /\ n < U16 THEN n
    ELSE IF conv = "wrap" THEN n % U16
    ELSE IF n < 0 THEN 0 ELSE U16 - 1

ConvModes == {"wrap", "sat"}

\* The Liang-Barsky pass of vtr_scan_linec over the edges left, right,
\* bottom, top: [reject, tentry, texit].
RECURSIVE ClipEdges(_, _, _, _)
ClipEdges(p, q, i, c) ==
    IF i > 4 \/ c.reject THEN c
    ELSE IF p[i] = 0
    THEN ClipEdges(p, q, i + 1, IF q[i] < 0 THEN [c EXCEPT !.reject = TRUE] ELSE c)
    ELSE LET t == FDiv(IntToF(q[i]), IntToF(p[i]))
         IN ClipEdges(p, q, i + 1,
                      IF p[i] < 0 THEN [c EXCEPT !.tentry = FMax(@, t)]
                                  ELSE [c EXCEPT !.texit = FMin(@, t)])

\* roundf(a + t * d) stored in a uint16_t.
ClipAt(a, t, d, conv) ==
    FloatToU16(FRoundf(FAdd(IntToF(a), FMul(t, IntToF(d)))), conv)

\* vtr_scan_linec after the clipping pass that returned c.
ScanClipped(k, x0, y0, dx, dy, fgc, conv, c) ==
    IF c.reject THEN k
    ELSE IF FLe(c.tentry, c.texit)
    THEN scan_line(k,
                   ClipAt(x0, c.tentry, dx, conv), ClipAt(y0, c.tentry, dy, conv),
                   ClipAt(x0, c.texit, dx, conv), ClipAt(y0, c.texit, dy, conv),
                   fgc)
    ELSE k

vtr_scan_linec(k, xdots, ydots, x0, y0, x1, y1, fgc, conv) ==
    LET dx   == x1 - x0
        dy   == y1 - y0
        xmax == xdots - 1
        ymax == ydots - 1
        p    == <<-dx, dx, -dy, dy>>
        q    == <<x0 - 0, xmax - x0, y0 - 0, ymax - y0>>
    IN ScanClipped(k, x0, y0, dx, dy, fgc, conv,
                   ClipEdges(p, q, 1, [reject |-> FALSE, tentry |-> FZero, texit |-> FOne]))

(***************************************************************************)
(* Convex polygon trace and fill.                                          *)
(***************************************************************************)
EINVAL == 22

ENOMEM == 12

MinInt(a, b) == IF a < b THEN a ELSE b

MaxInt(a, b) == IF a > b THEN a ELSE b

Clamp(v, l, u) == MinInt(MaxInt(v, l), u)

\* Vertex i (from 0) of a vertex list held as a sequence of <<x, y>>.
Vx(vlist, i) == vlist[(i % Len(vlist)) + 1]

\* The convexity test left out.
CrossNeverRejects(vlist, i, cross) == FALSE

\* The cross-product loop of vtr_trace_polyc from index i on: TRUE when two
\* nonzero cross products of opposite sign are met.
RECURSIVE CrossRejects(_, _, _)
CrossRejects(vlist, i, cross) ==
    IF i = Len(vlist) THEN FALSE
    ELSE LET a      == Vx(vlist, i)
             b      == Vx(vlist, i + 1)
             c      == Vx(vlist, i + 2)
             cross2 == (b[1] - a[1]) * (c[2] - b[2]) - (b[2] - a[2]) * (c[1] - b[1])
         IN IF cross2 = 0 THEN CrossRejects(vlist, i + 1, cross)
            ELSE IF (cross > 0 /\ cross2 < 0) \/ (cross < 0 /\ cross2 > 0) THEN TRUE
            ELSE CrossRejects(vlist, i + 1, cross2)

RECURSIVE MinY(_, _)
MinY(vlist, i) ==
    IF i = Len(vlist) THEN vlist[i][2] ELSE MinInt(vlist[i][2], MinY(vlist, i + 1))

RECURSIVE MaxY(_, _)
MaxY(vlist, i) ==
    IF i = Len(vlist) THEN vlist[i][2] ELSE MaxInt(vlist[i][2], MaxY(vlist, i + 1))

\* The x intercept of edge a-b with scan line y, as the code computes it.
XCept(a, b, y) ==
    FTrunc(FAdd(FDiv(FMul(IntToF(a[1] - b[1]), IntToF(y - b[2])), IntToF(a[2] - b[2])),
                IntToF(b[1])))

\* The edge loop of one scan line y from edge i on; cepts is the intercept
\* list (xcepts[0..ncepts-1]).
RECURSIVE PolyEdges(_, _, _, _, _, _, _, _, _, _, _)
\* An edge that crosses scan line y at xcept.
PolyCept(k, xdots, ydots, vlist, y, ymin, ymax, i, cepts, fgc, conv, xcept) ==
    IF \E j \in 1..Len(cepts) : cepts[j] = xcept
    THEN PolyEdges(k, xdots, ydots, vlist, y, ymin, ymax, i + 1, cepts, fgc, conv)
    ELSE IF ~(Len(cepts) < 2)
    THEN [k |-> [k EXCEPT !.fault = "assert ncepts"], cepts |-> cepts]
    ELSE PolyEdges(k, xdots, ydots, vlist, y, ymin, ymax, i + 1,
                   Append(cepts, xcept), fgc, conv)

PolyEdges(k, xdots, ydots, vlist, y, ymin, ymax, i, cepts, fgc, conv) ==
    IF i = Len(vlist) \/ k.fault # "" THEN [k |-> k, cepts |-> cepts]
    ELSE LET a == Vx(vlist, i)
             b == Vx(vlist, i + 1)
         IN IF y = a[2] /\ y = b[2]
            THEN PolyEdges(vtr_scan_linec(k, xdots, ydots, a[1], a[2], b[1], b[2], fgc, conv),
                           xdots, ydots, vlist, y, ymin, ymax, i + 1, cepts, fgc, conv)
            ELSE IF (y = a[2] \/ y = b[2]) /\ (y = ymin \/ y = ymax)
            THEN PolyEdges(vtr_render_dotc(k, xdots, ydots,
                                           IF y = a[2] THEN a[1] ELSE b[1], y, fgc),
                           xdots, ydots, vlist, y, ymin, ymax, i + 1, cepts, fgc, conv)
            ELSE IF (y >= a[2] /\ y <= b[2]) \/ (y >= b[2] /\ y <= a[2])
            THEN PolyCept(k, xdots, ydots, vlist, y, ymin, ymax, i, cepts, fgc, conv,
                          XCept(a, b, y))
            ELSE PolyEdges(k, xdots, ydots, vlist, y, ymin, ymax, i + 1, cepts, fgc, conv)

\* The span of scan line y between the intercepts r.cepts.
PolySpan(r, xdots, ydots, y, fgc, conv) ==
    IF Len(r.cepts) = 2
    THEN vtr_scan_linec(r.k, xdots, ydots, r.cepts[1], y, r.cepts[2], y, fgc, conv)
    ELSE IF Len(r.cepts) = 1
    THEN vtr_render_dotc(r.k, xdots, ydots, r.cepts[1], y, fgc)
    ELSE r.k

\* The scan-line loop from y up to ymax.
RECURSIVE PolyRows(_, _, _, _, _, _, _, _, _)
PolyRows(k, xdots, ydots, vlist, y, ymin, ymax, fgc, conv) ==
    IF y = ymax + 1 \/ k.fault # "" THEN k
    ELSE PolyRows(PolySpan(PolyEdges(k, xdots, ydots, vlist, y, ymin, ymax, 0, <<>>,
                                     fgc, conv),
                           xdots, ydots, y, fgc, conv),
                  xdots, ydots, vlist, y + 1, ymin, ymax, fgc, conv)

\* vtr_trace_polyc: [k, ret].
vtr_trace_polyc(k, xdots, ydots, vlist, fgc, conv) ==
    IF Len(vlist) = 0 THEN [k |-> k, ret |-> 0]
    ELSE IF Len(vlist) = 1
    THEN [k |-> vtr_render_dotc(k, xdots, ydots, vlist[1][1], vlist[1][2], fgc), ret |-> 0]
    ELSE IF Len(vlist) = 2
    THEN [k   |-> vtr_scan_linec(k, xdots, ydots, vlist[1][1], vlist[1][2],
                                 vlist[2][1], vlist[2][2], fgc, conv),
          ret |-> 0]
    ELSE IF CrossRejects(vlist, 0, 0) THEN [k |-> k, ret |-> -EINVAL]
    ELSE LET ymin == MinY(vlist, 1)
             ymax == MaxY(vlist, 1)
         IN IF (ymin < 0 /\ ymax < 0) \/ (ymin >= ydots /\ ymax >= ydots)
            THEN [k |-> k, ret |-> 0]
            ELSE [k   |-> PolyRows(k, xdots, ydots, vlist, Clamp(ymin, 0, ydots - 1),
                                   Clamp(ymin, 0, ydots - 1), Clamp(ymax, 0, ydots - 1),
                                   fgc, conv),
                  ret |-> 0]

\* vtr_print_text: [sb, ret]; str is a sequence of nonzero bytes.
RECURSIVE PrintLoop(_, _, _, _, _)
PrintLoop(sb, ncols, row, col, str) ==
    IF ~(col < ncols /\ str # <<>>) THEN sb
    ELSE PrintLoop(print_char(sb, row, col, Head(str)), ncols, row, col + 1, Tail(str))

vtr_print_text(sb, nrows, ncols, row, col, str) ==
    IF row >= nrows \/ col >= ncols THEN [sb |-> sb, ret |-> -EINVAL]
    ELSE [sb |-> PrintLoop(sb, ncols, row, col, str), ret |-> 0]

(***************************************************************************)
(* Escape sequences.  A byte stream is a sequence of numbers 0..255.       *)
(***************************************************************************)
ESC == 27

\* "\x1B[?1049h", "\x1B[?1049l", "\x1B[?25l", "\x1B[?25h", "\x1B[2J", "\x1B[0m"
SeqEnterAlt == <<ESC, 91, 63, 49, 48, 52, 57, 104>>

SeqLeaveAlt == <<ESC, 91, 63, 49, 48, 52, 57, 108>>

SeqHideCursor == <<ESC, 91, 63, 50, 53, 108>>

SeqShowCursor == <<ESC, 91, 63, 50, 53, 104>>

SeqClearScreen == <<ESC, 91, 50, 74>>

SeqResetAttrs == <<ESC, 91, 48, 109>>

VT_MIN_SEQLIST_SLACK == 64

VT_SEQLIST_BUFFER_SIZE(rows, cols) ==
    MaxInt(((rows + 1) * cols + 1) * 9, VT_MIN_SEQLIST_SLACK)

\* The decimal digits of n >= 0 as bytes ("%d").
RECURSIVE Dec(_)
Dec(n) == IF n < 10 THEN <<48 + n>> ELSE Append(Dec(n \div 10), 48 + (n % 10))

\* Row and column exchanged in the cursor position.
set_pos_s_swapped(seqcap, row, col) ==
    LET bytes == <<ESC, 91>> \o Dec(col) \o <<59>> \o Dec(row) \o <<72>>
    IN [bytes |-> bytes, ok |-> Len(bytes) <= seqcap]

\* The *_s encoders return the bytes they store; each is given the free
\* capacity and asserts that its bytes fit.
set_pos_s(seqcap, row, col) ==
    LET bytes == <<ESC, 91>> \o Dec(row) \o <<59>> \o Dec(col) \o <<72>>
    IN [bytes |-> bytes, ok |-> Len(bytes) <= seqcap]

draw_cell_s(seqcap, mask) ==
    [bytes |-> <<226, 160 + (mask \div 64), 128 + (mask % 64)>>, ok |-> seqcap >= 3]

\* The colour digit taken from the enum without the step back over DEFAULT.
set_foreground_color_s_enum(seqcap, fgc) ==
    [bytes |-> <<ESC, 91, 51, IF fgc = VTR_COLOR_DEFAULT THEN 57 ELSE 48 + fgc, 109>>,
     ok    |-> (fgc >= VTR_COLOR_DEFAULT /\ fgc < VTR_COLOR_TOTAL) /\ seqcap >= 5]

set_foreground_color_s(seqcap, fgc) ==
    [bytes |-> <<ESC, 91, 51, IF fgc = VTR_COLOR_DEFAULT THEN 57 ELSE 48 + fgc - 1, 109>>,
     ok    |-> (fgc >= VTR_COLOR_DEFAULT /\ fgc < VTR_COLOR_TOTAL) /\ seqcap >= 5]

put_char_s(seqcap, chr) == [bytes |-> <<chr>>, ok |-> seqcap >= 1]

\* The conversion with the bits 3..6 exchanged in pairs, 3 with 6 and 4 with
\* 5, instead of bit 3 moved over the bits 4..6.
BrailleCellMirrored(stencil) ==
    (stencil % 8) + ((stencil \div 8) % 2) * 64 + ((stencil \div 16) % 2) * 32
        + ((stencil \div 32) % 2) * 16 + ((stencil \div 64) % 2) * 8
        + (stencil \div 128) * 128

\* The conversion left out: the internal mask sent as the Braille pattern.
BrailleCellUnconverted(stencil) == stencil

\* The stencil byte in Braille dot order:
\* (stencil & 0x7) | (stencil & 0x8) << 3 | (stencil & 0x70) >> 1 | (stencil & 0x80).
BrailleCell(stencil) ==
    (stencil % 8) + ((stencil \div 8) % 2) * 64 + ((stencil \div 16) % 8) * 8
        + (stencil \div 128) * 128

(***************************************************************************)
(* The frame differ of vtr_swap_buffers.  The walk state is                *)
(* w = [seq, seqcap, cur_fgc, cell_skipped, nrealloc, status]: the stream  *)
(* so far, the buffer capacity, the colour the stream has selected, the    *)
(* cursor-dirty flag, the number of realloc calls made, and "ok", "enomem" *)
(* or "assert".  failext is the realloc call that fails (0: none does).    *)
(***************************************************************************)
Emit(w, r) ==
    IF w.status # "ok" THEN w
    ELSE IF ~r.ok THEN [w EXCEPT !.status = "assert"]
    ELSE [w EXCEPT !.seq = @ \o r.bytes]

SeqRoom(w) == w.seqcap - Len(w.seq)

\* The capacity left doubled when realloc failed (no seqcap >>= 1).
ExtendKeepsDoubled(w, failext) ==
    IF w.seqcap - Len(w.seq) <= VT_MIN_SEQLIST_SLACK
    THEN IF w.nrealloc + 1 = failext
         THEN [w EXCEPT !.status = "enomem", !.seqcap = @ * 2, !.nrealloc = @ + 1]
         ELSE [w EXCEPT !.seqcap = @ * 2, !.nrealloc = @ + 1]
    ELSE w

\* The buffer extended only once nothing is free in it.
ExtendWhenFull(w, failext) ==
    IF w.seqcap - Len(w.seq) <= 0
    THEN IF w.nrealloc + 1 = failext
         THEN [w EXCEPT !.status = "enomem", !.nrealloc = @ + 1]
         ELSE [w EXCEPT !.seqcap = @ * 2, !.nrealloc = @ + 1]
    ELSE w

\* extend_seq_buf, called when the free space is at most the slack.
ExtendIfNeeded(w, failext) ==
    IF w.seqcap - Len(w.seq) <= VT_MIN_SEQLIST_SLACK
    THEN IF w.nrealloc + 1 = failext
         THEN [w EXCEPT !.status = "enomem", !.nrealloc = @ + 1]
         ELSE [w EXCEPT !.seqcap = @ * 2, !.nrealloc = @ + 1]
    ELSE w

\* The cell loop without the mask of the overlay: is_overlaid is never set.
DiffCellUnmasked(w, cur, prev, idx, row, col, failext) ==
    LET is_overlaid  == FALSE
        is_text_diff == cur.textoverlay[idx] # prev.textoverlay[idx]
        is_cell_diff == (cur.buffer[idx] # prev.buffer[idx])
                            \/ (cur.fgcolors[idx] # prev.fgcolors[idx])
    IN IF ~is_text_diff /\ (is_overlaid \/ ~is_cell_diff)
       THEN [w EXCEPT !.cell_skipped = TRUE]
       ELSE LET w1 == ExtendIfNeeded(w, failext)
                w2 == IF w1.cell_skipped
                      THEN [Emit(w1, set_pos_s(SeqRoom(w1), row, col))
                               EXCEPT !.cell_skipped = FALSE]
                      ELSE w1
            IN IF w1.status # "ok" THEN w1
               ELSE IF ~is_overlaid /\ (is_text_diff \/ is_cell_diff)
               THEN LET fgc == cur.fgcolors[idx]
                        w3  == IF fgc # w2.cur_fgc
                               THEN [Emit(w2, set_foreground_color_s(SeqRoom(w2), fgc))
                                        EXCEPT !.cur_fgc = fgc]
                               ELSE w2
                    IN Emit(w3, draw_cell_s(SeqRoom(w3), BrailleCell(cur.buffer[idx])))
               ELSE IF is_overlaid /\ is_text_diff
               THEN LET w3 == IF w2.cur_fgc # VTR_COLOR_DEFAULT
                              THEN [Emit(w2, set_foreground_color_s(SeqRoom(w2),
                                                                    VTR_COLOR_DEFAULT))
                                       EXCEPT !.cur_fgc = VTR_COLOR_DEFAULT]
                              ELSE w2
                    IN Emit(w3, put_char_s(SeqRoom(w3), cur.textoverlay[idx]))
               ELSE w2

\* One iteration of the cell loop, for cell_idx = idx at (row, col), 1-based.
DiffCell(w, cur, prev, idx, row, col, failext) ==
    LET is_overlaid  == cur.textoverlay[idx] # 0
        is_text_diff == cur.textoverlay[idx] # prev.textoverlay[idx]
        is_cell_diff == (cur.buffer[idx] # prev.buffer[idx])
                            \/ (cur.fgcolors[idx] # prev.fgcolors[idx])
    IN IF ~is_text_diff /\ (is_overlaid \/ ~is_cell_diff)
       THEN [w EXCEPT !.cell_skipped = TRUE]
       ELSE LET w1 == ExtendIfNeeded(w, failext)
                w2 == IF w1.cell_skipped
                      THEN [Emit(w1, set_pos_s(SeqRoom(w1), row, col))
                               EXCEPT !.cell_skipped = FALSE]
                      ELSE w1
            IN IF w1.status # "ok" THEN w1
               ELSE IF ~is_overlaid /\ (is_text_diff \/ is_cell_diff)
               THEN LET fgc == cur.fgcolors[idx]
                        w3  == IF fgc # w2.cur_fgc
                               THEN [Emit(w2, set_foreground_color_s(SeqRoom(w2), fgc))
                                        EXCEPT !.cur_fgc = fgc]
                               ELSE w2
                    IN Emit(w3, draw_cell_s(SeqRoom(w3), BrailleCell(cur.buffer[idx])))
               ELSE IF is_overlaid /\ is_text_diff
               THEN LET w3 == IF w2.cur_fgc # VTR_COLOR_DEFAULT
                              THEN [Emit(w2, set_foreground_color_s(SeqRoom(w2),
                                                                    VTR_COLOR_DEFAULT))
                                       EXCEPT !.cur_fgc = VTR_COLOR_DEFAULT]
                              ELSE w2
                    IN Emit(w3, put_char_s(SeqRoom(w3), cur.textoverlay[idx]))
               ELSE w2

RECURSIVE DiffWalk(_, _, _, _, _, _, _)
DiffWalk(w, cur, prev, idx, nrows, ncols, failext) ==
    IF idx = nrows * ncols \/ w.status # "ok" THEN w
    ELSE DiffWalk(DiffCell(w, cur, prev, idx, (idx \div ncols) + 1, (idx % ncols) + 1,
                           failext),
                  cur, prev, idx + 1, nrows, ncols, failext)

\* The stream vtr_swap_buffers composes for the stencils cur and prev.
SwapStream(cur, prev, nrows, ncols, seqcap, failext) ==
    DiffWalk(Emit([seq |-> <<>>, seqcap |-> seqcap, cur_fgc |-> VTR_COLOR_DEFAULT,
                   cell_skipped |-> TRUE, nrealloc |-> 0, status |-> "ok"],
                  set_foreground_color_s(seqcap, VTR_COLOR_DEFAULT)),
             cur, prev, 0, nrows, ncols, failext)

\* The previous stencil kept as it is instead of being cleared.
KeepStencil(sb) == sb

\* memset(.., 0, nrows * ncols) on the three arrays of a stencil.
ZeroStencil(sb) ==
    [sb EXCEPT !.buffer = [i \in DOMAIN @ |-> 0],
               !.fgcolors = [i \in DOMAIN @ |-> 0],
               !.textoverlay = [i \in DOMAIN @ |-> 0]]

(***************************************************************************)
(* The heap.  h = [live, bad]: the addresses of the allocated blocks, and  *)
(* whether free was handed an address that is not allocated (a double      *)
(* free).  malloc returns the least address not in use.                    *)
(***************************************************************************)
HeapAlloc(h) ==
    LET p == CHOOSE i \in 1..(Cardinality(h.live) + 1) :
                 i \notin h.live /\ \A j \in 1..(i - 1) : j \in h.live
    IN [h |-> [h EXCEPT !.live = @ \cup {p}], p |-> p]

HeapFree(h, p) ==
    IF p = NULL THEN h
    ELSE IF p \in h.live THEN [h EXCEPT !.live = @ \ {p}]
    ELSE [h EXCEPT !.bad = TRUE]

\* create_stencil_buf: failk in 1..3 is the calloc that fails (0: none).
\* Returns [ret, sb, h]; on failure sb keeps the addresses already freed at
\* error_out.
create_stencil_buf(h, rows, cols, failk) ==
    LET a1 == HeapAlloc(h)
        a2 == HeapAlloc(a1.h)
        a3 == HeapAlloc(a2.h)
        \* what memset(sb, 0, sizeof(*sb)) and the callocs before the failure leave
        Failed(ptr) == ZeroedStencil(0, 0, ptr)
    IN IF failk = 1
       THEN [ret |-> -ENOMEM, sb |-> Failed(NoPtr), h |-> HeapFree(HeapFree(h, NULL), NULL)]
       ELSE IF failk = 2
       THEN [ret |-> -ENOMEM,
             sb  |-> Failed([NoPtr EXCEPT !.buffer = a1.p]),
             h   |-> HeapFree(HeapFree(a1.h, NULL), a1.p)]
       ELSE IF failk = 3
       THEN [ret |-> -ENOMEM,
             sb  |-> Failed([NoPtr EXCEPT !.buffer = a1.p, !.fgcolors = a2.p]),
             h   |-> HeapFree(HeapFree(a2.h, a2.p), a1.p)]
       ELSE [ret |-> 0,
             sb  |-> ZeroedStencil(rows, cols,
                                   [buffer |-> a1.p, fgcolors |-> a2.p, textoverlay |-> a3.p]),
             h   |-> a3.h]

\* free_stencil_buf: [sb, h].
free_stencil_buf(h, sb) ==
    [sb |-> [sb EXCEPT !.ydots = 0, !.xdots = 0,
                       !.ptr.buffer = NULL, !.ptr.fgcolors = NULL],
     h  |-> HeapFree(HeapFree(HeapFree(h, sb.ptr.buffer), sb.ptr.fgcolors),
                     sb.ptr.textoverlay)]

(***************************************************************************)
(* The terminal: its attributes, its window size, and the screen a stream  *)
(* of bytes is drawn on.  A screen cell is [ch, v, fg]: ch = "braille"     *)
(* with the dot byte v of U+2800+v, or ch = "byte" with the byte stored;   *)
(* fg is the SGR colour digit (9: default) it was drawn with.  pos is the  *)
(* cursor as a cell index from 0 in row-major order; a stored character    *)
(* advances it by one.  esc holds the bytes of an unfinished sequence.     *)
(***************************************************************************)
SgrDefault == 9

BlankCell == [ch |-> "braille", v |-> 0, fg |-> SgrDefault]

BlankScreen(rows, cols) == [i \in 0..(rows * cols - 1) |-> BlankCell]

\* The number a sequence of digit bytes writes (0 for none).
RECURSIVE Num(_)
Num(ds) == IF ds = <<>> THEN 0 ELSE Num(SubSeq(ds, 1, Len(ds) - 1)) * 10 + (ds[Len(ds)] - 48)

\* The parameter bytes of a CSI sequence before and after the first ';'.
RECURSIVE UpTo(_, _)
UpTo(bs, sep) ==
    IF bs = <<>> \/ Head(bs) = sep THEN <<>> ELSE <<Head(bs)>> \o UpTo(Tail(bs), sep)

After(bs, sep) ==
    IF Len(UpTo(bs, sep)) = Len(bs) THEN <<>>
    ELSE SubSeq(bs, Len(UpTo(bs, sep)) + 2, Len(bs))

TermStore(t, cell) ==
    LET n == t.rows * t.cols
    IN [t EXCEPT !.screen = IF t.pos < n THEN [@ EXCEPT ![t.pos] = cell] ELSE @,
                 !.pos    = IF t.pos < n THEN t.pos + 1 ELSE @]

\* A complete CSI sequence with parameter bytes ps and final byte f.
TermCsi(t, ps, f) ==
    IF f = 72   \* H: cursor position, 1-based row ; column, kept on the screen
    THEN LET r == Clamp(Num(UpTo(ps, 59)), 1, t.rows)
             c == Clamp(Num(After(ps, 59)), 1, t.cols)
         IN [t EXCEPT !.pos = (r - 1) * t.cols + (c - 1)]
    ELSE IF f = 109   \* m: 0 and 39 select the default colour, 30..37 a colour
    THEN IF Num(ps) = 0 \/ Num(ps) = 39 THEN [t EXCEPT !.pen = SgrDefault]
         ELSE IF Num(ps) >= 30 /\ Num(ps) <= 37 THEN [t EXCEPT !.pen = Num(ps) - 30]
         ELSE t
    ELSE IF f = 74 /\ Num(ps) = 2   \* 2J: clear the screen
    THEN [t EXCEPT !.screen = BlankScreen(t.rows, t.cols)]
    ELSE IF ps = <<63, 49, 48, 52, 57>> /\ (f = 104 \/ f = 108)   \* ?1049h, ?1049l
    THEN [t EXCEPT !.alt = (f = 104), !.screen = BlankScreen(t.rows, t.cols), !.pos = 0]
    ELSE IF ps = <<63, 50, 53>> /\ (f = 104 \/ f = 108)   \* ?25h, ?25l
    THEN [t EXCEPT !.cursor = (f = 104)]
    ELSE t

TermByte(t, b) ==
    IF b = ESC THEN [t EXCEPT !.esc = <<b>>]   \* ESC starts a sequence anew
    ELSE IF t.esc = <<>>
    THEN IF b = 226 THEN [t EXCEPT !.esc = <<b>>]
         ELSE TermStore(t, [ch |-> "byte", v |-> b, fg |-> t.pen])
    ELSE IF Head(t.esc) = 226
    THEN IF Len(t.esc) = 2
         THEN TermStore([t EXCEPT !.esc = <<>>],
                        [ch |-> "braille", v |-> (t.esc[2] - 160) * 64 + (b - 128),
                         fg |-> t.pen])
         ELSE [t EXCEPT !.esc = Append(@, b)]
    ELSE IF Len(t.esc) = 1
    THEN IF b = 91 THEN [t EXCEPT !.esc = Append(@, b)] ELSE [t EXCEPT !.esc = <<>>]
    ELSE IF b >= 64 /\ b <= 126
    THEN TermCsi([t EXCEPT !.esc = <<>>], SubSeq(t.esc, 3, Len(t.esc)), b)
    ELSE [t EXCEPT !.esc = Append(@, b)]

RECURSIVE TermFeed(_, _)
TermFeed(t, bytes) ==
    IF bytes = <<>> THEN t ELSE TermFeed(TermByte(t, Head(bytes)), Tail(bytes))

(***************************************************************************)
(* System calls.  An operation's calls are logged as records [fn, arg,     *)
(* res]; env names what the terminal does with each.                       *)
(***************************************************************************)
\* write(fd, seq, nbytes): "ok" takes every byte, "short" the first byte
\* only, and "fail" returns -1 and takes none.
WriteResult(bytes, o) ==
    IF o = "ok" THEN Len(bytes) ELSE IF o = "short" THEN 1 ELSE -1

WriteOutcomes == {"ok", "short", "fail"}

\* sendseq: [ret, sys, term] after writing bytes with outcome o.
sendseq(st, bytes, o) ==
    LET res == WriteResult(bytes, o)
    IN [ret  |-> IF res = -1 \/ res # Len(bytes) THEN -1 ELSE 0,
        sys  |-> Append(st.sys, [fn |-> "write", arg |-> bytes, res |-> res]),
        term |-> IF res > 0 THEN TermFeed(st.term, SubSeq(bytes, 1, res)) ELSE st.term]

(***************************************************************************)
(* The canvas and the terminal as a state machine.                         *)
(*                                                                         *)
(*   platform  the build: "linux" (termios) or "win32" (console mode)      *)
(*   vt        struct vtr_canvas; orig is origattrs or origmode, sb the    *)
(*             pair of stencils and cur_sb the index (1, 2) cur_sb points  *)
(*             at; self and seqlist are heap addresses                     *)
(*   heap      the allocator's ledger                                      *)
(*   term      the terminal                                                *)
(*   phase     where the host is: "created" (vtr_reset has not succeeded:  *)
(*             the host calls it once and exits through vtr_close when it  *)
(*             fails, as the programs under src/ do), "drawing" (its frame *)
(*             loop), "closed" (after vtr_close), "aborted" (a failed      *)
(*             assertion or a detected double free ended the process) or   *)
(*             "corrupt" (a double free went unnoticed)                    *)
(*   fault     what aborted the process, or ""                             *)
(*   call      the last API call: [op, args, env, ret, dots], dots being   *)
(*             the dots it handed to render_dot                            *)
(*   sys       the system calls the last API call made, in order           *)
(*   old       before the last call: the op and ret of the call before it, *)
(*             the canvas's rows and columns, and whether a cell of a      *)
(*             stencil was not zero                                        *)
(*   attrs0    the terminal's attributes when the canvas was created       *)
(***************************************************************************)
VARIABLES platform, vt, heap, term, phase, fault, call, sys, old, attrs0

vars == <<platform, vt, heap, term, phase, fault, call, sys, old, attrs0>>

Platforms == {"linux", "win32"}

\* Terminal attributes are the set of flags that are on.  The termios flags
\* vtr_reset clears, and the console-mode flags it clears and sets.
LinuxRawOff == {"OPOST", "CREAD", "ICANON", "ECHO", "IEXTEN"}

Win32RawOff == {"ENABLE_LINE_INPUT", "ENABLE_ECHO_INPUT"}

Win32RawOn == {"ENABLE_VIRTUAL_TERMINAL_PROCESSING", "ENABLE_PROCESSED_INPUT",
               "DISABLE_NEWLINE_AUTO_RETURN"}

RawAttrs(pf, attrs) ==
    IF pf = "linux" THEN attrs \ LinuxRawOff
    ELSE (attrs \ Win32RawOff) \cup Win32RawOn

\* The attributes a terminal may have when the host acquires it.
StartAttrs(pf) ==
    IF pf = "linux" THEN {LinuxRawOff \cup {"ISIG"}}
    ELSE {Win32RawOff \cup {"ENABLE_PROCESSED_INPUT"}}

\* What a field of malloc'ed memory that was never assigned may hold.
Indeterminate(pf) == StartAttrs(pf) \cup {{"ENABLE_MOUSE_INPUT"}}

\* The stencil cur_sb points at and the other one.
Other(i) == 3 - i

Back(v) == v.sb[v.cur_sb]

Front(v) == v.sb[Other(v.cur_sb)]

NewTerm(attrs, rows, cols) ==
    [attrs |-> attrs, rows |-> rows, cols |-> cols, screen |-> BlankScreen(rows, cols),
     pos |-> 0, pen |-> SgrDefault, esc |-> <<>>, alt |-> FALSE, cursor |-> TRUE]

\* vtr_canvas_create when every call succeeds: [vt, h].  On win32 origmode
\* is not assigned, so it holds junk.
vtr_canvas_create(pf, t, junk) ==
    LET a0  == HeapAlloc([live |-> {}, bad |-> FALSE])
        c1  == create_stencil_buf(a0.h, t.rows, t.cols, 0)
        c2  == create_stencil_buf(c1.h, t.rows, t.cols, 0)
        a3  == HeapAlloc(c2.h)
    IN [vt |-> [orig           |-> IF pf = "linux" THEN t.attrs ELSE junk,
                resize_pending |-> FALSE,
                nrows          |-> t.rows,
                ncols          |-> t.cols,
                ydots          |-> ToU16(t.rows * VT_CELL_YDOTS),
                xdots          |-> ToU16(t.cols * VT_CELL_XDOTS),
                sb             |-> <<c1.sb, c2.sb>>,
                cur_sb         |-> 1,
                seqlist        |-> a3.p,
                seqcap         |-> VT_SEQLIST_BUFFER_SIZE(t.rows, t.cols),
                self           |-> a0.p],
        h  |-> a3.h]

NoCall == [op |-> "create", args |-> <<>>, env |-> <<>>, ret |-> 0, dots |-> {}]

\* The state after a successful vtr_canvas_create on a terminal of the
\* given sizes.
InitOn(pfs, sizes) ==
    \E pf \in pfs, sz \in sizes :
      \E attrs \in StartAttrs(pf), junk \in Indeterminate(pf) :
        LET t == NewTerm(attrs, sz[1], sz[2])
            c == vtr_canvas_create(pf, t, IF pf = "linux" THEN attrs ELSE junk)
        IN /\ platform = pf
           /\ term = t
           /\ vt = c.vt
           /\ heap = c.h
           /\ phase = "created"
           /\ fault = ""
           /\ call = NoCall
           /\ sys = <<>>
           /\ old = [op |-> "", ret |-> 0, nrows |-> c.vt.nrows, ncols |-> c.vt.ncols,
                     dirty |-> FALSE]
           /\ attrs0 = attrs

\* What every API call records.
Called(op, args, env, ret, log, dots) ==
    /\ call' = [op |-> op, args |-> args, env |-> env, ret |-> ret, dots |-> dots]
    /\ sys' = log
    /\ old' = [op |-> call.op, ret |-> call.ret, nrows |-> vt.nrows, ncols |-> vt.ncols,
               dirty |-> \E i \in 1..2 : vt.sb[i] # ZeroStencil(vt.sb[i])]
    /\ UNCHANGED <<platform, attrs0>>

\* A failed assertion, or an abort by the allocator, in the middle of a call.
Aborts(op, args, env, why, dots) ==
    /\ Called(op, args, env, 0, <<>>, dots)
    /\ phase' = "aborted"
    /\ fault' = why

Alive == phase' = phase /\ fault' = fault

(***************************************************************************)
(* Acquiring and releasing the terminal.                                   *)
(***************************************************************************)
\* tcgetattr / GetConsoleMode and tcsetattr / SetConsoleMode: o is "ok" or
\* "fail"; a failed update changes nothing.
GetAttr(st, o) ==
    [st EXCEPT !.sys = Append(@, [fn |-> "getattr", arg |-> st.term.attrs,
                                  res |-> IF o = "ok" THEN 0 ELSE -1])]

SetAttr(st, attrs, o) ==
    [st EXCEPT !.sys = Append(@, [fn |-> "setattr", arg |-> attrs,
                                  res |-> IF o = "ok" THEN 0 ELSE -1]),
               !.term.attrs = IF o = "ok" THEN attrs ELSE @]

\* error |= sendseq(..): st carries ret.
OrSend(st, bytes, o) ==
    LET r == sendseq(st, bytes, o)
    IN [st EXCEPT !.ret = IF r.ret # 0 THEN -1 ELSE @, !.sys = r.sys, !.term = r.term]

\* The environments of vtr_reset: which of its calls fails, if any.
AllOk4 == <<"ok", "ok", "ok", "ok">>

ResetEnvs ==
    {[get |-> "ok", set |-> "ok", w |-> AllOk4],
     [get |-> "fail", set |-> "ok", w |-> AllOk4],
     [get |-> "ok", set |-> "fail", w |-> AllOk4]}
    \cup {[get |-> "ok", set |-> "ok", w |-> [AllOk4 EXCEPT ![i] = "fail"]] : i \in 1..4}
    \cup {[get |-> "ok", set |-> "ok", w |-> [AllOk4 EXCEPT ![4] = "short"]]}

\* vtr_reset: [ret, vt, sys, term].
vtr_reset(pf, v, t, e) ==
    LET s0 == GetAttr([ret |-> 0, vt |-> v, sys |-> <<>>, term |-> t], e.get)
        \* win32 stores the mode it read in origmode
        s1 == IF pf = "win32" THEN [s0 EXCEPT !.vt.orig = t.attrs] ELSE s0
        s2 == SetAttr(s1, RawAttrs(pf, t.attrs), e.set)
        s3 == OrSend(s2, SeqEnterAlt, e.w[1])
        s4 == OrSend(s3, SeqHideCursor, e.w[2])
        s5 == OrSend(s4, SeqClearScreen, e.w[3])
        s6 == OrSend(s5, SeqResetAttrs, e.w[4])
    IN IF e.get # "ok" THEN [s0 EXCEPT !.ret = -1]
       ELSE IF e.set # "ok" THEN [s2 EXCEPT !.ret = -1]
       ELSE s6

CloseEnvs ==
    [set : {"ok"}, w : {<<"ok", "ok">>, <<"fail", "ok">>, <<"ok", "short">>}]
    \cup [set : {"fail"}, w : {<<"ok", "ok">>}]

\* vtr_close: [vt, h, sys, term].
vtr_close(v, h, t, e) ==
    LET s1 == SetAttr([ret |-> 0, sys |-> <<>>, term |-> t], v.orig, e.set)
        f1 == free_stencil_buf(h, v.sb[1])
        f2 == free_stencil_buf(f1.h, v.sb[2])
        h3 == HeapFree(f2.h, v.seqlist)
        s2 == OrSend(s1, SeqLeaveAlt, e.w[1])
        s3 == OrSend(s2, SeqShowCursor, e.w[2])
    IN [vt   |-> [v EXCEPT !.sb = <<f1.sb, f2.sb>>],
        h    |-> HeapFree(h3, v.self),
        sys  |-> s3.sys,
        term |-> s3.term]

Reset(e) ==
    /\ phase = "created" /\ call.op = "create"
    /\ LET r == vtr_reset(platform, vt, term, e)
       IN /\ vt' = r.vt
          /\ term' = r.term
          /\ Called("reset", <<>>, e, r.ret, r.sys, {})
          /\ phase' = IF r.ret = 0 THEN "drawing" ELSE "created"
    /\ UNCHANGED <<heap, fault>>

Close(e) ==
    /\ phase \in {"created", "drawing"}
    /\ LET r == vtr_close(vt, heap, term, e)
       IN /\ vt' = r.vt
          /\ heap' = r.h
          /\ term' = r.term
          /\ Called("close", <<>>, e, 0, r.sys, {})
    /\ phase' = "closed"
    /\ UNCHANGED fault

SetResizePending ==
    /\ phase = "drawing"
    /\ vt' = [vt EXCEPT !.resize_pending = TRUE]
    /\ Called("set_resize_pending", <<>>, <<>>, 0, <<>>, {})
    /\ Alive
    /\ UNCHANGED <<heap, term>>

(***************************************************************************)
(* Resizing.                                                               *)
(***************************************************************************)
\* The environments of vtr_resize: whether the size query succeeds, which
\* allocation fails (1..3 the arrays of sb1, 4..6 those of sb2, 7 the
\* sequence list, 0 none), what the write of clear-screen does, and what a
\* double free does: the allocator aborts the process, or it goes unnoticed.
ResizeEnvs ==
    [ioctl : {"ok"}, failk : {0}, w : WriteOutcomes, ub : {"silent"}]
    \cup [ioctl : {"fail"}, failk : {0}, w : {"ok"}, ub : {"silent"}]
    \cup [ioctl : {"ok"}, failk : 1..7, w : {"ok"}, ub : {"abort", "silent"}]

\* vtr_resize with resize_pending set and the size query answered:
\* [ret, vt, h, sys, term].
vtr_resize(v, h, t, e) ==
    LET rows == t.rows
        cols == t.cols
        sys0 == <<[fn |-> "winsize", arg |-> <<rows, cols>>, res |-> 0]>>
        c1   == create_stencil_buf(h, rows, cols, IF e.failk \in 1..3 THEN e.failk ELSE 0)
        \* || does not evaluate the second call when the first fails
        c2   == IF c1.ret # 0 THEN [ret |-> 0, sb |-> ZeroedStencil(0, 0, NoPtr), h |-> c1.h]
                ELSE create_stencil_buf(c1.h, rows, cols,
                                        IF e.failk \in 4..6 THEN e.failk - 3 ELSE 0)
        a3   == HeapAlloc(c2.h)
        \* error_out
        e1   == free_stencil_buf(c2.h, c1.sb)
        e2   == free_stencil_buf(e1.h, c2.sb)
        \* the success path
        f1   == free_stencil_buf(a3.h, v.sb[1])
        f2   == free_stencil_buf(f1.h, v.sb[2])
        h3   == HeapFree(f2.h, v.seqlist)
        v1   == [v EXCEPT !.nrows = rows, !.ncols = cols,
                          !.ydots = ToU16(rows * VT_CELL_YDOTS),
                          !.xdots = ToU16(cols * VT_CELL_XDOTS),
                          !.sb = <<c1.sb, c2.sb>>,
                          !.cur_sb = 1,
                          !.seqlist = a3.p,
                          !.seqcap = VT_SEQLIST_BUFFER_SIZE(rows, cols),
                          !.resize_pending = FALSE]
        s    == sendseq([sys |-> sys0, term |-> t], SeqClearScreen, e.w)
    IN IF c1.ret # 0 \/ c2.ret # 0 \/ e.failk = 7
       THEN [ret |-> -1, vt |-> v, h |-> HeapFree(e2.h, NULL), sys |-> sys0, term |-> t]
       ELSE [ret |-> 0, vt |-> v1, h |-> h3, sys |-> s.sys, term |-> s.term]

Resize(e) ==
    /\ phase = "drawing"
    /\ IF ~vt.resize_pending
       THEN /\ Called("resize", <<>>, <<>>, 0, <<>>, {})
            /\ Alive
            /\ UNCHANGED <<vt, heap, term>>
       ELSE IF e.ioctl # "ok"
       THEN /\ Called("resize", <<>>, e, -1,
                      <<[fn |-> "winsize", arg |-> <<>>, res |-> -1]>>, {})
            /\ Alive
            /\ UNCHANGED <<vt, heap, term>>
       ELSE LET r == vtr_resize(vt, heap, term, e)
            IN IF r.h.bad /\ e.ub = "abort"
               THEN /\ Aborts("resize", <<>>, e, "double free", {})
                    /\ heap' = r.h
                    /\ UNCHANGED <<vt, term>>
               ELSE /\ vt' = r.vt
                    /\ heap' = r.h
                    /\ term' = r.term
                    /\ Called("resize", <<>>, e, r.ret, r.sys, {})
                    \* with the heap corrupted nothing that follows is defined
                    /\ phase' = IF r.h.bad THEN "corrupt" ELSE phase
                    /\ UNCHANGED fault

\* The user resizes the terminal window: the screen is redrawn empty.
WindowResize(sz) ==
    /\ phase = "drawing"
    /\ <<term.rows, term.cols>> # sz
    /\ term' = [term EXCEPT !.rows = sz[1], !.cols = sz[2],
                            !.screen = BlankScreen(sz[1], sz[2]), !.pos = 0]
    /\ UNCHANGED <<platform, vt, heap, phase, fault, call, sys, old, attrs0>>

(***************************************************************************)
(* Presenting a frame.                                                     *)
(***************************************************************************)
\* A presentation that clears the stencil it presented and keeps drawing
\* into it.
vtr_swap_buffers_in_place(v, t, failext, o) ==
    LET w  == SwapStream(Back(v), Front(v), v.nrows, v.ncols, v.seqcap, failext)
        v1 == [v EXCEPT !.seqcap = w.seqcap]
        v2 == [v1 EXCEPT !.sb[v.cur_sb] = ZeroStencil(@)]
        s  == sendseq([sys |-> <<>>, term |-> t], w.seq, o)
    IN IF w.status = "enomem"
       THEN [ret |-> -ENOMEM, vt |-> v1, sys |-> <<>>, term |-> t, status |-> w.status]
       ELSE [ret |-> s.ret, vt |-> v2, sys |-> s.sys, term |-> s.term, status |-> w.status]

\* vtr_swap_buffers: [ret, vt, sys, term, status].  failext is the call of
\* extend_seq_buf that fails, o what the write does.
vtr_swap_buffers(v, t, failext, o) ==
    LET w  == SwapStream(Back(v), Front(v), v.nrows, v.ncols, v.seqcap, failext)
        v1 == [v EXCEPT !.seqcap = w.seqcap]
        v2 == [v1 EXCEPT !.sb[Other(v.cur_sb)] = ZeroStencil(@),
                         !.cur_sb = Other(v.cur_sb)]
        s  == sendseq([sys |-> <<>>, term |-> t], w.seq, o)
    IN IF w.status = "enomem"
       THEN [ret |-> -ENOMEM, vt |-> v1, sys |-> <<>>, term |-> t, status |-> w.status]
       ELSE [ret |-> s.ret, vt |-> v2, sys |-> s.sys, term |-> s.term, status |-> w.status]

SwapBuffers(failext, o) ==
    /\ phase = "drawing"
    /\ LET r == vtr_swap_buffers(vt, term, failext, o)
           e == [failext |-> failext, w |-> o]
       IN IF r.status = "assert"
          THEN /\ Aborts("swap_buffers", <<>>, e, "assert seqcap", {})
               /\ UNCHANGED <<vt, term>>
          ELSE /\ vt' = r.vt
               /\ term' = r.term
               /\ Called("swap_buffers", <<>>, e, r.ret, r.sys, {})
               /\ Alive
    /\ UNCHANGED heap

(***************************************************************************)
(* Rasterizing into the back buffer.                                       *)
(***************************************************************************)
\* What a kernel call leaves: the stencil, or the abort of a failed assert.
Rastered(op, args, env, k, ret) ==
    /\ IF k.fault # ""
       THEN /\ Aborts(op, args, env, k.fault, k.dots)
            /\ UNCHANGED vt
       ELSE /\ vt' = [vt EXCEPT !.sb[vt.cur_sb] = k.sb]
            /\ Called(op, args, env, ret, <<>>, k.dots)
            /\ Alive
    /\ UNCHANGED <<heap, term>>

RenderDot(x, y, fgc) ==
    /\ phase = "drawing"
    /\ Rastered("render_dot", <<x, y, fgc>>, <<>>,
                vtr_render_dotc(Kernel(Back(vt)), vt.xdots, vt.ydots, x, y, fgc), 0)

\* conv is what the build makes of an out-of-range float converted to uint16_t.
ScanLine(x0, y0, x1, y1, fgc, conv) ==
    /\ phase = "drawing"
    /\ Rastered("scan_line", <<x0, y0, x1, y1, fgc>>, conv,
                vtr_scan_linec(Kernel(Back(vt)), vt.xdots, vt.ydots,
                               x0, y0, x1, y1, fgc, conv), 0)

TracePoly(vlist, fgc, conv) ==
    /\ phase = "drawing"
    /\ LET r == vtr_trace_polyc(Kernel(Back(vt)), vt.xdots, vt.ydots, vlist, fgc, conv)
       IN Rastered("trace_poly", <<vlist, fgc>>, conv, r.k, r.ret)

PrintText(row, col, str) ==
    /\ phase = "drawing"
    /\ LET r == vtr_print_text(Back(vt), vt.nrows, vt.ncols, row, col, str)
       IN /\ vt' = [vt EXCEPT !.sb[vt.cur_sb] = r.sb]
          /\ Called("print_text", <<row, col, str>>, <<>>, r.ret, <<>>, {})
    /\ Alive
    /\ UNCHANGED <<heap, term>>

(***************************************************************************)
(* Specification Spec: the life of a canvas on either build, from          *)
(* vtr_canvas_create to vtr_close, with frames of one dot and resizes in   *)
(* between.  vtr_reset and vtr_close meet every failure of their calls.    *)
(***************************************************************************)
MaxRows == 1

MaxCols == 2

Sizes == (1..MaxRows) \X (1..MaxCols)

Init == InitOn(Platforms, Sizes)

Next ==
    \/ \E e \in ResetEnvs : Reset(e)
    \/ \E e \in CloseEnvs : Close(e)
    \/ SetResizePending
    \/ \E e \in {r \in ResizeEnvs : r.failk = 0 /\ r.w = "ok"} : Resize(e)
    \/ \E sz \in Sizes : WindowResize(sz)
    \/ \E o \in {"ok", "fail"} : SwapBuffers(0, o)
    \/ RenderDot(0, 0, VTR_COLOR_DEFAULT)

Spec == Init /\ [][Next]_vars

(***************************************************************************)
(* Specification SpecFaults: the frame loop of a canvas that was reset,    *)
(* with every failure of a write, of an allocation and of the size query.  *)
(***************************************************************************)
\* The calls of extend_seq_buf that may fail in one vtr_swap_buffers.
MaxFailExt == 1

\* The canvas after vtr_canvas_create and a vtr_reset that succeeded.
InitReset(pfs, sizes) ==
    \E pf \in pfs, sz \in sizes :
      \E attrs \in StartAttrs(pf) :
        LET t == NewTerm(attrs, sz[1], sz[2])
            c == vtr_canvas_create(pf, t, attrs)
            r == vtr_reset(pf, c.vt, t, [get |-> "ok", set |-> "ok", w |-> AllOk4])
        IN /\ platform = pf
           /\ term = r.term
           /\ vt = r.vt
           /\ heap = c.h
           /\ phase = "drawing"
           /\ fault = ""
           /\ call = [NoCall EXCEPT !.op = "reset"]
           /\ sys = r.sys
           /\ old = [op |-> "create", ret |-> 0, nrows |-> c.vt.nrows, ncols |-> c.vt.ncols,
                     dirty |-> FALSE]
           /\ attrs0 = attrs

InitFaults == InitReset({"linux"}, Sizes)

NextFaults ==
    \/ SetResizePending
    \/ \E e \in ResizeEnvs : Resize(e)
    \/ \E sz \in Sizes : WindowResize(sz)
    \/ \E f \in 0..MaxFailExt, o \in WriteOutcomes : SwapBuffers(f, o)
    \/ RenderDot(0, 0, VTR_COLOR_DEFAULT)

SpecFaults == InitFaults /\ [][NextFaults]_vars

(***************************************************************************)
(* Specification SpecFrames: frames drawn with every kernel on a canvas    *)
(* that was reset, presented by writes that succeed.  The inputs are       *)
(* placed by the canvas's size: dots in the corners and in colour, a line  *)
(* across the canvas that is clipped at both ends, a triangle, text that   *)
(* fits, that is cut at the end of its row and that is refused.            *)
(***************************************************************************)
FrameRows == 2

FrameCols == 2

FrameDots ==
    {<<0, 0, VTR_COLOR_DEFAULT>>, <<1, 0, VTR_COLOR_RED>>,
     <<vt.xdots - 1, vt.ydots - 1, VTR_COLOR_GREEN>>}

FrameLines == {<<-3, 2, vt.xdots + 3, 5, VTR_COLOR_DEFAULT>>}

FramePolys == {<< <<<<0, 0>>, <<3, 0>>, <<3, 7>>>>, VTR_COLOR_BLUE >>}

FrameTexts ==
    {<<0, 0, <<65>>>>, <<vt.nrows - 1, vt.ncols - 1, <<66, 67>>>>, <<vt.nrows, 0, <<65>>>>}

InitFrames == InitReset({"linux"}, {<<FrameRows, FrameCols>>})

\* The host draws a frame with at most two calls before it presents it.
Presented(c) == c.op \in {"reset", "swap_buffers"} /\ c.ret = 0

FrameOpen == Presented(call) \/ Presented(old)

NextFrames ==
    \/ FrameOpen /\ \E d \in FrameDots : RenderDot(d[1], d[2], d[3])
    \/ FrameOpen /\ \E l \in FrameLines, conv \in ConvModes :
         ScanLine(l[1], l[2], l[3], l[4], l[5], conv)
    \/ FrameOpen /\ \E v \in FramePolys, conv \in ConvModes : TracePoly(v[1], v[2], conv)
    \/ FrameOpen /\ \E t \in FrameTexts : PrintText(t[1], t[2], t[3])
    \/ \E f \in 0..MaxFailExt : SwapBuffers(f, "ok")

SpecFrames == InitFrames /\ [][NextFrames]_vars

(***************************************************************************)
(* Properties of acquisition and release (checked under Spec).             *)
(***************************************************************************)
IsWrite(e) == e.fn = "write"

\* The byte strings an API call handed to write, in order.
WritesOf(log) ==
    LET ws == SelectSeq(log, IsWrite) IN [i \in 1..Len(ws) |-> ws[i].arg]

\* vtr_close called the attribute update first, with the attributes given.
Reapplies(log, attrs) ==
    Len(log) >= 1 /\ log[1].fn = "setattr" /\ log[1].arg = attrs

\* C3: whatever calls came between vtr_canvas_create and vtr_close, vtr_close
\* reapplies the terminal attributes as they were at creation, writes the
\* leave-alternate-screen sequence and then the show-cursor sequence, and
\* leaves no block of the canvas allocated.
C3_CloseRestoresCreationSnapshot ==
    call.op = "close" =>
        /\ Reapplies(sys, attrs0)
        /\ WritesOf(sys) = <<SeqLeaveAlt, SeqShowCursor>>
        /\ heap.live = {} /\ ~heap.bad

\* C4: a vtr_close that follows a vtr_reset which failed, at whichever of its
\* steps, reapplies the attributes the terminal had before it was acquired
\* and writes leave-alternate-screen and show-cursor.
C4_CloseAfterFailedReset ==
    (call.op = "close" /\ old.op = "reset" /\ old.ret # 0) =>
        /\ Reapplies(sys, attrs0)
        /\ WritesOf(sys) = <<SeqLeaveAlt, SeqShowCursor>>

\* The termios build keeps both: origattrs is copied in vtr_canvas_create.
CloseRestoresOnTermios ==
    platform = "linux" => C3_CloseRestoresCreationSnapshot /\ C4_CloseAfterFailedReset

(***************************************************************************)
(* Properties of failing calls and of resizing (checked under SpecFaults). *)
(***************************************************************************)
\* The step is a call of op (a resize of the window is no call).
Calls(op) == call'.op = op /\ <<vt, call, sys, old>>' # <<vt, call, sys, old>>

\* Every cell of the stencil is zero in mask, colour and overlay, over
\* rows * cols cells.
AllZero(sb, rows, cols) ==
    /\ DOMAIN sb.buffer = 0..(rows * cols - 1)
    /\ DOMAIN sb.fgcolors = 0..(rows * cols - 1)
    /\ DOMAIN sb.textoverlay = 0..(rows * cols - 1)
    /\ \A i \in 0..(rows * cols - 1) :
         sb.buffer[i] = 0 /\ sb.fgcolors[i] = 0 /\ sb.textoverlay[i] = 0

\* C2: a vtr_swap_buffers whose write fails or is short returns an error
\* and leaves the front/back designation and both stencils as they were.
C2_FailedWriteKeepsBuffers ==
    [][(Calls("swap_buffers") /\ call'.env.w # "ok" /\ sys' # <<>>)
          => (call'.ret # 0 /\ vt'.cur_sb = vt.cur_sb /\ vt'.sb = vt.sb)]_vars

C6_FailedResizeKeepsCanvas ==
    [][(Calls("resize") /\ vt.resize_pending /\ call'.env.ioctl = "ok"
            /\ call'.env.failk # 0)
          => /\ phase' = "drawing"
             /\ call'.ret # 0
             /\ vt' = vt
             /\ vt'.resize_pending]_vars

\* What holds of C6: when the first calloc of a stencil or the malloc of the
\* sequence list fails nothing is freed twice, and the canvas is kept.
FailedResizeKeepsCanvasUnlessFreedTwice ==
    [][(Calls("resize") /\ vt.resize_pending /\ call'.env.ioctl = "ok"
            /\ call'.env.failk \in {1, 4, 7})
          => (phase' = "drawing" /\ call'.ret # 0 /\ vt' = vt /\ ~heap'.bad
                /\ heap'.live = heap.live)]_vars


(***************************************************************************)
(* Properties of the presented frame.                                      *)
(***************************************************************************)
\* The Braille bit (dot number - 1) of the dot in column c, row r of a cell.
DotBit == << <<0, 1, 2, 6>>, <<3, 4, 5, 7>> >>

\* The Braille pattern of an internal mask, dot by dot: the dot in column c,
\* row r of the cell is bit r + 4 * c of the mask.
GlyphOf(mask) ==
    LET dot(c, r) == ((mask \div P2(r + 4 * c)) % 2) * P2(DotBit[c + 1][r + 1])
    IN dot(0, 0) + dot(0, 1) + dot(0, 2) + dot(0, 3)
       + dot(1, 0) + dot(1, 1) + dot(1, 2) + dot(1, 3)

\* The SGR colour digit of a colour of enum vtr_color.
SgrOf(fgc) == IF fgc = VTR_COLOR_DEFAULT THEN SgrDefault ELSE fgc - 1

\* What a terminal cell shows when it shows cell i of stencil sb.
ShowsCell(cell, sb, i) ==
    IF sb.textoverlay[i] # 0
    THEN cell.ch = "byte" /\ cell.v = sb.textoverlay[i]
    ELSE cell.ch = "braille" /\ cell.v = GlyphOf(sb.buffer[i])
         /\ cell.fg = SgrOf(sb.fgcolors[i])

\* C1: on a canvas that was reset, whatever was drawn and presented with
\* writes that succeed, every cell of the terminal shows the stencil that
\* was presented last: its overlay byte if there is one, otherwise the
\* Braille glyph of its mask in its colour.
C1_ScreenShowsFront ==
    \A i \in 0..(vt.nrows * vt.ncols - 1) : ShowsCell(term.screen[i], Front(vt), i)

\* A frame with a coloured glyph and a text byte is on the screen.
C1_FrameShown ==
    /\ call.op = "swap_buffers" /\ call.ret = 0
    /\ \E i \in 0..(vt.nrows * vt.ncols - 1) :
         /\ Front(vt).buffer[i] # 0 /\ Front(vt).fgcolors[i] # VTR_COLOR_DEFAULT
         /\ Front(vt).textoverlay[i] = 0
         /\ term.screen[i].ch = "braille" /\ term.screen[i].fg # SgrDefault
    /\ \E i \in 0..(vt.nrows * vt.ncols - 1) :
         Front(vt).textoverlay[i] # 0 /\ term.screen[i].ch = "byte"

\* The cells a byte stream stores into, read off a terminal of the canvas's
\* size: for each store in order [cell, bytes, move, pen], the cell, the
\* bytes stored, the cursor-position sequence that came since the store
\* before (<<>> if none did), and the colour selected when it was stored.
RECURSIVE StoreLog(_, _, _, _)
StoreLog(t, bytes, move, log) ==
    IF bytes = <<>> THEN log
    ELSE LET b     == Head(bytes)
             t1    == TermByte(t, b)
             sq    == Append(t.esc, b)
             isCsi == t.esc # <<>> /\ Head(t.esc) = ESC /\ t1.esc = <<>>
         IN IF isCsi
            THEN StoreLog(t1, Tail(bytes), IF b = 72 THEN sq ELSE move, log)
            ELSE IF t1.pos = t.pos + 1
            THEN StoreLog(t1, Tail(bytes), <<>>,
                          Append(log, [cell |-> t.pos, bytes |-> sq, move |-> move,
                                      pen |-> t.pen]))
            ELSE StoreLog(t1, Tail(bytes), move, log)

\* Every byte an operation wrote, in order.
RECURSIVE Flat(_)
Flat(ws) == IF ws = <<>> THEN <<>> ELSE Head(ws) \o Flat(Tail(ws))

Stores(log) == StoreLog(NewTerm({}, vt.nrows, vt.ncols), Flat(WritesOf(log)), <<>>, <<>>)

\* ESC [ 3 9 m, the prefix of every frame, and ESC [ r ; c H for cell i.
SgrDefaultFg == <<ESC, 91, 51, 57, 109>>

MoveTo(i) == <<ESC, 91>> \o Dec((i \div vt.ncols) + 1) \o <<59>> \o Dec((i % vt.ncols) + 1) \o <<72>>

CellZero(sb, i) == sb.buffer[i] = 0 /\ sb.fgcolors[i] = 0 /\ sb.textoverlay[i] = 0

\* A vtr_swap_buffers that wrote a frame directly follows one that did.
SwapsTwice ==
    /\ call.op = "swap_buffers" /\ call.ret = 0
    /\ Calls("swap_buffers") /\ call'.ret = 0

\* C7 as amended: the second of two consecutive vtr_swap_buffers writes the
\* prefix ESC[39m and nothing else exactly when the frame the first one
\* presented was empty; otherwise it also stores into exactly the cells that
\* were not empty in that frame.
C7_SecondSwapErasesFirstFrame ==
    [][SwapsTwice =>
         /\ (WritesOf(sys') = <<SgrDefaultFg>>) <=> AllZero(Front(vt), vt.nrows, vt.ncols)
         /\ {Stores(sys')[j].cell : j \in 1..Len(Stores(sys'))}
              = {i \in 0..(vt.nrows * vt.ncols - 1) : ~CellZero(Front(vt), i)}]_vars

\* C7 as the specification states it: the second of two consecutive
\* vtr_swap_buffers writes only the prefix, whatever the first one presented.
C7_SecondSwapWritesPrefixOnly ==
    [][SwapsTwice => WritesOf(sys') = <<SgrDefaultFg>>]_vars

\* The second of two consecutive vtr_swap_buffers has written cell updates.
C7_SecondSwapWroteCells ==
    /\ call.op = "swap_buffers" /\ call.ret = 0
    /\ old.op = "swap_buffers" /\ old.ret = 0
    /\ WritesOf(sys) # <<SgrDefaultFg>>
    /\ Len(Stores(sys)) >= 1

\* C8: when the frame on the screen has dots in a cell without text and the
\* frame presented next has nothing in that cell, vtr_swap_buffers stores
\* the empty Braille glyph E2 A0 80 there, after a cursor move to the cell
\* when it has written nothing to the cell before it.
C8_UntouchedCellErased ==
    [][(Calls("swap_buffers") /\ call'.ret = 0) =>
         \A i \in 0..(vt.nrows * vt.ncols - 1) :
           (Front(vt).buffer[i] # 0 /\ Front(vt).textoverlay[i] = 0 /\ CellZero(Back(vt), i))
             => \E j \in 1..Len(Stores(sys')) :
                  LET st == Stores(sys')[j]
                  IN /\ st.cell = i
                     /\ st.bytes = <<226, 160, 128>>
                     /\ (i = 0 \/ \A l \in 1..Len(Stores(sys')) : Stores(sys')[l].cell # i - 1)
                          => st.move = MoveTo(i)]_vars

\* A vtr_swap_buffers erased a cell after moving the cursor to it, and the
\* cell is empty on the screen.
C8_CellErased ==
    /\ call.op = "swap_buffers" /\ call.ret = 0
    /\ \E j \in 1..Len(Stores(sys)) :
         /\ Stores(sys)[j].bytes = <<226, 160, 128>>
         /\ Stores(sys)[j].move = MoveTo(Stores(sys)[j].cell)
         /\ Stores(sys)[j].cell > 0
         /\ term.screen[Stores(sys)[j].cell] = BlankCell

(***************************************************************************)
(* Specification SpecRaster: one call of a rasterization kernel on a       *)
(* canvas that was reset, for dots, segments, polygons and text placed     *)
(* inside, across and far outside the canvas.  A dot or a text may also    *)
(* come second, after a dot or a text that left something in the buffer.   *)
(***************************************************************************)
RasterRows == 2

RasterCols == 2

\* A coordinate beyond 2^24, where a float no longer holds every integer.
Far == 17000000

RasterXs == {-Far, -2, 0, 1, vt.xdots - 1, vt.xdots + 1}

RasterYs == {-3, 0, 1, vt.ydots - 3, vt.ydots - 1, Far}

RasterDotXs == {-Far, -1, 0, 1, vt.xdots - 1, vt.xdots, Far}

RasterDotYs == {-Far, -1, 0, 3, vt.ydots - 1, vt.ydots, Far}

\* Triangles of either orientation, a convex quadrilateral, the same with a
\* reflex vertex, a triangle with a vertex in the middle of an edge, and a
\* polygon that is a segment.
RasterShapes ==
    {<< <<0, 0>>, <<3, 0>>, <<0, 5>> >>,
     << <<1, 0>>, <<0, 4>>, <<3, 4>> >>,
     << <<0, 0>>, <<3, 1>>, <<3, 4>>, <<0, 3>> >>,
     << <<0, 0>>, <<4, 0>>, <<2, 4>>, <<2, 2>> >>,
     << <<0, 0>>, <<2, 0>>, <<4, 0>>, <<2, 3>> >>,
     << <<0, 1>>, <<1, 1>>, <<3, 1>> >>}

RasterShifts == (-4..4) \X {-6, -3, -1, 0, 2, 5, 8}

\* Polygons reaching far outside the canvas.
RasterFarPolys ==
    {<< <<0, 0>>, <<Far, 0>>, <<0, 3>> >>,
     << <<-Far, 2>>, <<2, -3>>, <<3, 6>> >>,
     << <<1, -Far>>, <<3, 5>>, <<0, 5>> >>}

\* A five-pointed star: every corner turns the same way, and the outline
\* goes round its centre twice.
RasterStars == {<< <<2, 0>>, <<3, 6>>, <<0, 2>>, <<4, 2>>, <<1, 6>> >>}

Shift(shape, d) == [i \in 1..Len(shape) |-> <<shape[i][1] + d[1], shape[i][2] + d[2]>>]

RasterTexts ==
    {<<r, c, s>> : r \in 0..vt.nrows, c \in 0..vt.ncols,
                   s \in {<<>>, <<65>>, <<66, 67>>, <<68, 69, 70>>}}

\* Segments that cross the canvas at a slant from ends outside it.
RasterSkewLines ==
    {<<13, -5, -9, 6>>, <<-9, 6, 13, -5>>, <<-10, -3, 12, 8>>, <<12, 8, -10, -3>>,
     <<-50, 3, 200, 3>>, <<2, 200, 2, -50>>}

\* The dots of the canvas.
CanvasDots == (0..(vt.xdots - 1)) \X (0..(vt.ydots - 1))

InitRaster == InitReset({"linux"}, {<<RasterRows, RasterCols>>})

\* The buffer is as vtr_reset left it.
Untouched == call.op = "reset"

\* One dot or one text went into the buffer since vtr_reset.
Prepared ==
    /\ old.op = "reset"
    /\ \/ call.op = "render_dot" /\ call.args = <<1, 3, VTR_COLOR_RED>>
       \/ call.op = "print_text" /\ call.args = <<0, 0, <<65>>>>

NextRaster ==
    \/ (Untouched \/ Prepared) /\ \E x \in RasterDotXs, y \in RasterDotYs :
         RenderDot(x, y, IF x = 1 /\ y = 0 THEN VTR_COLOR_GREEN ELSE VTR_COLOR_RED)
    \/ (Untouched \/ Prepared) /\ \E t \in RasterTexts : PrintText(t[1], t[2], t[3])
    \/ Untouched /\ \E x0 \in RasterXs, y0 \in RasterYs, x1 \in RasterXs, y1 \in RasterYs :
         \E conv \in ConvModes : ScanLine(x0, y0, x1, y1, VTR_COLOR_DEFAULT, conv)
    \/ Untouched /\ \E p \in CanvasDots, q \in CanvasDots, conv \in ConvModes :
         ScanLine(p[1], p[2], q[1], q[2], VTR_COLOR_DEFAULT, conv)
    \/ Untouched /\ \E l \in RasterSkewLines, conv \in ConvModes :
         ScanLine(l[1], l[2], l[3], l[4], VTR_COLOR_DEFAULT, conv)
    \/ Untouched /\ \E s \in RasterShapes, d \in RasterShifts, conv \in ConvModes :
         TracePoly(Shift(s, d), VTR_COLOR_BLUE, conv)
    \/ Untouched /\ \E v \in RasterFarPolys, conv \in ConvModes :
         TracePoly(v, VTR_COLOR_BLUE, conv)
    \/ Untouched /\ \E v \in RasterStars, conv \in ConvModes :
         TracePoly(v, VTR_COLOR_BLUE, conv)

SpecRaster == InitRaster /\ [][NextRaster]_vars

(***************************************************************************)
(* Properties of the rasterization kernels.                                *)
(***************************************************************************)
Kernels == {"render_dot", "scan_line", "trace_poly"}

InCanvas(x, y) == 0 <= x /\ x < vt.xdots /\ 0 <= y /\ y < vt.ydots

\* C9: whatever the coordinates, no assertion of a kernel fails and every
\* dot handed to the plot kernel lies inside the canvas.
C9_KernelsStayInCanvas ==
    call.op \in Kernels =>
      /\ phase # "aborted" /\ fault = ""
      /\ \A d \in call.dots : InCanvas(d[1], d[2])

\* C10: vtr_render_dotc with x or y outside the canvas leaves the canvas,
\* and with it every cell of the back buffer, as it was.
C10_OutsideDotChangesNothing ==
    [][(Calls("render_dot") /\ ~InCanvas(call'.args[1], call'.args[2]))
         => (vt' = vt /\ phase' = phase /\ fault' = "")]_vars

\* A dot outside the canvas was asked for while the back buffer held a dot.
C10_OutsideDotOnDrawing ==
    /\ call.op = "render_dot" /\ ~InCanvas(call.args[1], call.args[2])
    /\ call.args[1] = vt.xdots
    /\ old.op = "render_dot"
    /\ ~AllZero(Back(vt), vt.nrows, vt.ncols)

\* The cross product of the edges at vertex i + 1 of a vertex list, indices
\* taken modulo its length.
CrossAt(vlist, i) ==
    LET n == Len(vlist)
        a == vlist[(i % n) + 1]
        b == vlist[((i + 1) % n) + 1]
        c == vlist[((i + 2) % n) + 1]
    IN (b[1] - a[1]) * (c[2] - b[2]) - (b[2] - a[2]) * (c[1] - b[1])

\* Two triples that follow each other turn opposite ways.
TurnsBothWays(vlist) ==
    \E i \in 0..(Len(vlist) - 1) :
      \/ CrossAt(vlist, i) > 0 /\ CrossAt(vlist, i + 1) < 0
      \/ CrossAt(vlist, i) < 0 /\ CrossAt(vlist, i + 1) > 0

\* All triples that turn at all turn the same way.
TurnsOneWay(vlist) ==
    \/ \A i \in 0..(Len(vlist) - 1) : CrossAt(vlist, i) >= 0
    \/ \A i \in 0..(Len(vlist) - 1) : CrossAt(vlist, i) <= 0

\* C11: vtr_trace_polyc on three or more vertices of which two consecutive
\* triples turn opposite ways returns -EINVAL and leaves the canvas as it
\* was; when every triple that turns turns the same way, collinear triples
\* among them or not, it does not return -EINVAL.
C11_ConcaveRejected ==
    [][(Calls("trace_poly") /\ Len(call'.args[1]) >= 3) =>
         /\ TurnsBothWays(call'.args[1]) => (call'.ret = -EINVAL /\ vt' = vt /\ fault' = "")
         /\ TurnsOneWay(call'.args[1]) => call'.ret # -EINVAL]_vars

\* A quadrilateral with a reflex vertex was refused, the canvas untouched.
C11_ReflexRefused ==
    /\ call.op = "trace_poly" /\ call.ret = -EINVAL
    /\ Len(call.args[1]) = 4 /\ TurnsBothWays(call.args[1])
    /\ AllZero(Back(vt), vt.nrows, vt.ncols)

\* Dot (x, y) of the canvas is set in stencil sb.
DotSet(sb, x, y) ==
    LET idx == (y \div VT_CELL_YDOTS) * vt.ncols + (x \div VT_CELL_XDOTS)
    IN (sb.buffer[idx] \div P2((y % VT_CELL_YDOTS) + 4 * (x % VT_CELL_XDOTS))) % 2 = 1

\* (b - a) x (q - a).
Side(a, b, q) == (b[1] - a[1]) * (q[2] - a[2]) - (b[2] - a[2]) * (q[1] - a[1])

\* q is inside or on the convex polygon vlist.
InPolygon(vlist, q) ==
    LET n == Len(vlist)
        e(i) == Side(vlist[i], vlist[(i % n) + 1], q)
    IN /\ (\A i \in 1..n : e(i) >= 0) \/ (\A i \in 1..n : e(i) <= 0)
       /\ \E i \in 1..n : vlist[i][1] <= q[1]
       /\ \E i \in 1..n : vlist[i][1] >= q[1]
       /\ \E i \in 1..n : vlist[i][2] <= q[2]
       /\ \E i \in 1..n : vlist[i][2] >= q[2]

\* q is less than one dot away from the segment a-b.
NearSegment(a, b, q) ==
    LET dx == b[1] - a[1]
        dy == b[2] - a[2]
        t  == (q[1] - a[1]) * dx + (q[2] - a[2]) * dy
    IN IF t <= 0 THEN q = a
       ELSE IF t >= dx * dx + dy * dy THEN q = b
       ELSE Side(a, b, q) * Side(a, b, q) < dx * dx + dy * dy

\* q is less than one dot away from the polygon vlist.
NearPolygon(vlist, q) ==
    \/ InPolygon(vlist, q)
    \/ \E i \in 1..Len(vlist) : NearSegment(vlist[i], vlist[(i % Len(vlist)) + 1], q)

\* A convex polygon with no vertex far away was traced on the empty buffer.
TracedConvex ==
    /\ call.op = "trace_poly" /\ old.op = "reset"
    /\ Len(call.args[1]) >= 3
    /\ \A i \in 1..Len(call.args[1]) :
         Abs(call.args[1][i][1]) < U16 /\ Abs(call.args[1][i][2]) < U16
    /\ TurnsOneWay(call.args[1])
    /\ \A i \in 1..Len(call.args[1]) : InPolygon(call.args[1], call.args[1][i])

\* C12: after vtr_trace_polyc of a convex polygon on an empty buffer, every
\* dot of the canvas inside or on the polygon is set, every cell with a dot
\* set has the colour of the call, and no dot one whole dot or more away
\* from the polygon is set.
C12_ConvexPolygonFilled ==
    TracedConvex =>
      /\ fault = "" /\ call.ret = 0
      /\ \A q \in CanvasDots : InPolygon(call.args[1], q) => DotSet(Back(vt), q[1], q[2])
      /\ \A q \in CanvasDots : DotSet(Back(vt), q[1], q[2]) => NearPolygon(call.args[1], q)
      /\ \A i \in 0..(vt.nrows * vt.ncols - 1) :
           Back(vt).buffer[i] # 0 => Back(vt).fgcolors[i] = call.args[2]

\* The same for the polygons that lie inside the canvas with every vertex.
ConvexPolygonInsideCanvasFilled ==
    (TracedConvex /\ \A i \in 1..Len(call.args[1]) :
                       InCanvas(call.args[1][i][1], call.args[1][i][2]))
      => C12_ConvexPolygonFilled

\* C13: after a scan line between two dots of the canvas, of whatever slope
\* and direction, both end dots are set, no assertion failed, and the scan
\* ended after at most two dots for each step of its longer side.
C13_EndpointsPlotted ==
    (call.op = "scan_line" /\ InCanvas(call.args[1], call.args[2])
                           /\ InCanvas(call.args[3], call.args[4])) =>
      /\ fault = ""
      /\ DotSet(Back(vt), call.args[1], call.args[2])
      /\ DotSet(Back(vt), call.args[3], call.args[4])
      /\ <<call.args[1], call.args[2]>> \in call.dots
      /\ <<call.args[3], call.args[4]>> \in call.dots
      /\ Cardinality(call.dots)
           <= 2 * (MaxInt(Abs(call.args[3] - call.args[1]),
                          Abs(call.args[4] - call.args[2])) + 1)

\* A steep line drawn upwards and to the left, and a diagonal, reached
\* their end dots.
C13_SteepLineDrawn ==
    /\ call.op = "scan_line" /\ fault = ""
    /\ InCanvas(call.args[1], call.args[2]) /\ InCanvas(call.args[3], call.args[4])
    /\ call.args[3] < call.args[1] /\ call.args[4] < call.args[2] - 1
    /\ call.args[1] - call.args[3] < call.args[2] - call.args[4]
    /\ DotSet(Back(vt), call.args[3], call.args[4])

\* The dots of the canvas on the segment between (x0, y0) and (x1, y1), for
\* a segment along an axis.
AxisDots(x0, y0, x1, y1) ==
    {q \in CanvasDots : /\ MinInt(x0, x1) <= q[1] /\ q[1] <= MaxInt(x0, x1)
                        /\ MinInt(y0, y1) <= q[2] /\ q[2] <= MaxInt(y0, y1)}

\* The dots set in a stencil.
DotsOf(sb) == {q \in CanvasDots : DotSet(sb, q[1], q[2])}

\* A segment along an axis was scanned on the empty buffer.
ScannedAxis ==
    /\ call.op = "scan_line" /\ old.op = "reset"
    /\ (call.args[1] = call.args[3] \/ call.args[2] = call.args[4])

\* C14: a scan line along an axis, wherever its ends lie, sets exactly the
\* dots of the segment that are dots of the canvas, and none when the
\* segment misses the canvas.
C14_AxisSegmentClipped ==
    ScannedAxis =>
      /\ fault = ""
      /\ DotsOf(Back(vt)) = AxisDots(call.args[1], call.args[2], call.args[3], call.args[4])

\* The same for segments with no end far away.
AxisSegmentClippedNear ==
    (ScannedAxis /\ \A i \in 1..4 : Abs(call.args[i]) < U16) => C14_AxisSegmentClipped

\* The kernel state after vtr_scan_linec from (x1, y1) to (x0, y0) on the
\* empty buffer, for the segment the last call scanned from (x0, y0).
Reversed ==
    vtr_scan_linec(Kernel(ZeroStencil(Back(vt))), vt.xdots, vt.ydots,
                   call.args[3], call.args[4], call.args[1], call.args[2],
                   call.args[5], call.env)

\* C15: a scan line on the empty buffer sets the dots that the scan line
\* between the same ends taken in the other order sets, and neither fails.
C15_DirectionSymmetric ==
    (call.op = "scan_line" /\ old.op = "reset") =>
      /\ fault = "" /\ Reversed.fault = ""
      /\ Reversed.sb.buffer = Back(vt).buffer

\* The stores of a stream into cell i, in order.
StoresAt(log, i) ==
    LET st == Stores(log)
    IN SelectSeq(st, LAMBDA e : e.cell = i)

\* C16: in a vtr_swap_buffers that writes its frame, a cell whose overlay
\* byte in the frame is not zero gets no Braille glyph; it gets its overlay
\* byte, once and with the default colour selected, when the byte differs
\* from the overlay of the frame before at the cell, and it gets nothing
\* when the byte is the same, whatever its mask and colour are in the two
\* frames.
C16_OverlayMasksGraphics ==
    [][(Calls("swap_buffers") /\ call'.ret = 0) =>
         \A i \in 0..(vt.nrows * vt.ncols - 1) :
           Back(vt).textoverlay[i] # 0 =>
             StoresAt(sys', i)
               = IF Back(vt).textoverlay[i] # Front(vt).textoverlay[i]
                 THEN <<[cell |-> i, bytes |-> <<Back(vt).textoverlay[i]>>,
                         move |-> StoresAt(sys', i)[1].move, pen |-> SgrDefault]>>
                 ELSE <<>>]_vars

\* A vtr_swap_buffers has put the text byte of a cell that has dots under
\* it, after it had selected a colour for the glyph of a cell before.
C16_TextOverGraphics ==
    /\ call.op = "swap_buffers" /\ call.ret = 0
    /\ \E j \in 2..Len(Stores(sys)) :
         /\ Len(Stores(sys)[j].bytes) = 1
         /\ Stores(sys)[j].pen = SgrDefault
         /\ Stores(sys)[j - 1].pen # SgrDefault
         /\ Front(vt).buffer[Stores(sys)[j].cell] # 0

\* A vtr_swap_buffers has left alone a cell whose text stayed while dots
\* were drawn under it.
TextKeptOverGraphics ==
    /\ call.op = "swap_buffers" /\ call.ret = 0
    /\ \E i \in 0..(vt.nrows * vt.ncols - 1) :
         /\ Front(vt).textoverlay[i] # 0 /\ Front(vt).buffer[i] # 0
         /\ StoresAt(sys, i) = <<>>
         /\ Stores(sys) # <<>>

\* C17: vtr_print_text(row, col, str) with row < nrows and col < ncols
\* returns 0 and puts the first min(Len(str), ncols - col) bytes of str into
\* the overlay of the back stencil at the cells (row, col), (row, col + 1),
\* ..., and changes no other overlay cell, no mask, no colour and nothing
\* else of the canvas; with row >= nrows or col >= ncols it returns -EINVAL
\* and changes nothing.
C17_TextWrittenIntoRow ==
    [][Calls("print_text") =>
         LET row  == call'.args[1]
             col  == call'.args[2]
             str  == call'.args[3]
             n    == MinInt(Len(str), vt.ncols - col)
             base == row * vt.ncols + col
         IN IF row < vt.nrows /\ col < vt.ncols
            THEN /\ call'.ret = 0
                 /\ Back(vt').textoverlay
                      = [i \in DOMAIN Back(vt).textoverlay |->
                           IF i >= base /\ i < base + n THEN str[i - base + 1]
                           ELSE Back(vt).textoverlay[i]]
                 /\ vt' = [vt EXCEPT !.sb[vt.cur_sb].textoverlay = Back(vt').textoverlay]
            ELSE call'.ret = -EINVAL /\ vt' = vt]_vars

\* A text longer than what is left of its row went into the last row of a
\* stencil that held a dot and was cut at the end of the row.
C17_TextCutAtRowEnd ==
    /\ call.op = "print_text" /\ call.ret = 0
    /\ old.op = "render_dot"
    /\ call.args[1] = vt.nrows - 1
    /\ Len(call.args[3]) > vt.ncols - call.args[2]
    /\ Back(vt).textoverlay[vt.nrows * vt.ncols - 1] = call.args[3][vt.ncols - call.args[2]]
    /\ \E i \in DOMAIN Back(vt).buffer : Back(vt).buffer[i] # 0

(***************************************************************************)
(* Specification SpecScenes: on a canvas of SceneRows x SceneCols cells    *)
(* that was reset, one dot in any colour, inside the canvas or just        *)
(* outside it, then a second dot after the dot (1, 0) or a dot in the last *)
(* colour drawn once more, and then the frame presented.                   *)
(***************************************************************************)
SceneRows == 4

SceneCols == 4

SceneDotXs == (-1)..vt.xdots

SceneDotYs == (-1)..vt.ydots

SceneSecondDots == {<<0, 1>>, <<1, 0>>, <<2, 0>>, <<0, 4>>}

InitScenes == InitReset({"linux"}, {<<SceneRows, SceneCols>>})

\* vtr_reset was followed by render_dot(1, 0) and by nothing else.
FirstDotDrawn ==
    /\ old.op = "reset" /\ call.op = "render_dot"
    /\ call.args = <<1, 0, VTR_COLOR_DEFAULT>>

\* vtr_reset was followed by one dot in the last colour and by nothing else.
WhiteDotDrawn ==
    /\ old.op = "reset" /\ call.op = "render_dot"
    /\ call.args[3] = VTR_COLOR_TOTAL - 1

NextScenes ==
    \/ Untouched /\ \E x \in SceneDotXs, y \in SceneDotYs, c \in Colors : RenderDot(x, y, c)
    \/ FirstDotDrawn /\ \E d \in SceneSecondDots : RenderDot(d[1], d[2], VTR_COLOR_DEFAULT)
    \/ WhiteDotDrawn /\ RenderDot(call.args[1], call.args[2], call.args[3])
    \/ call.op = "render_dot" /\ SwapBuffers(0, "ok")

SpecScenes == InitScenes /\ [][NextScenes]_vars

(***************************************************************************)
(* Properties of the bytes of a frame.                                     *)
(***************************************************************************)
\* The three bytes of U+2800 + b in UTF-8.
Utf8Braille(b) == <<226, 160 + (b \div 64), 128 + (b % 64)>>

\* ESC [ 3 k m for the colours BLACK..WHITE, k = 0..7; nothing for DEFAULT.
SgrColour(c) == IF c = VTR_COLOR_DEFAULT THEN <<>> ELSE <<ESC, 91, 51, 48 + (c - 1), 109>>

\* The frame of one dot (x, y) in colour c: the prefix, the cursor at the
\* dot's cell, the colour, the glyph with the dot's Braille bit.
OneDotFrame(x, y, c) ==
    SgrDefaultFg
      \o <<ESC, 91>> \o Dec((y \div 4) + 1) \o <<59>> \o Dec((x \div 2) + 1) \o <<72>>
      \o SgrColour(c)
      \o Utf8Braille(P2(DotBit[(x % 2) + 1][(y % 4) + 1]))

\* C18: on a canvas that was reset and not drawn on, vtr_render_dotc of a
\* dot (x, y) inside the canvas in any of the nine colours c, followed by
\* vtr_swap_buffers, writes ESC[39m, ESC[r;cH with r = y/4 + 1 and
\* c = x/2 + 1, ESC[3km when c is not DEFAULT, and the glyph of the dot,
\* in one write and nothing else.
C18_OneDotFrameBytes ==
    [][(Calls("swap_buffers") /\ call.op = "render_dot" /\ old.op = "reset"
          /\ InCanvas(call.args[1], call.args[2]))
         => /\ call'.ret = 0
            /\ WritesOf(sys') = <<OneDotFrame(call.args[1], call.args[2], call.args[3])>>]_vars

\* The frame of a dot in the last colour, in the bottom right corner of the
\* canvas, has been written and is on the screen.
C18_WhiteCornerDotShown ==
    /\ call.op = "swap_buffers" /\ call.ret = 0 /\ old.op = "render_dot"
    /\ Len(WritesOf(sys)) = 1
    /\ WritesOf(sys)[1]
         = OneDotFrame(vt.xdots - 1, vt.ydots - 1, VTR_COLOR_TOTAL - 1)
    /\ term.screen[vt.nrows * vt.ncols - 1] = [ch |-> "braille", v |-> 128, fg |-> 7]

\* vtr_reset; render_dot(1, 0); render_dot(0, 1); and now vtr_swap_buffers.
TwoDotsPresented ==
    /\ Calls("swap_buffers")
    /\ call.op = "render_dot" /\ call.args = <<0, 1, VTR_COLOR_DEFAULT>>
    /\ old.op = "render_dot"

\* C19 as amended: the frame of the dots (1, 0) and (0, 1) on a canvas that
\* was reset is the prefix, one cursor move to the first cell and one glyph;
\* the cell's mask is 0x12 and its Braille byte is 0x0A, the glyph bytes
\* being E2 A0 8A.
C19_TwoDotsGlyph ==
    [][TwoDotsPresented =>
         /\ Back(vt).buffer[0] = 18
         /\ WritesOf(sys') = <<SgrDefaultFg \o MoveTo(0) \o <<226, 160, 138>>>>]_vars

\* C19 as the specification states it: the Braille byte of the cell is 0x12
\* and the glyph bytes are E2 A0 92.
C19_TwoDotsGlyphAsStated ==
    [][TwoDotsPresented =>
         /\ Back(vt).buffer[0] = 18
         /\ WritesOf(sys') = <<SgrDefaultFg \o MoveTo(0) \o <<226, 160, 146>>>>]_vars

\* The frame of the two dots is on the screen: the first cell shows dots 2
\* and 4 of the Braille pattern, every other cell is blank.
C19_TwoDotsShown ==
    /\ call.op = "swap_buffers" /\ call.ret = 0 /\ old.op = "render_dot"
    /\ Front(vt).buffer[0] = 18
    /\ term.screen[0] = [ch |-> "braille", v |-> 10, fg |-> SgrDefault]
    /\ \A i \in 1..(vt.nrows * vt.ncols - 1) : term.screen[i] = BlankCell

(***************************************************************************)
(* Specification SpecGlyphs: on a canvas of GlyphRows x GlyphCols cells    *)
(* that was reset, dots of the first cell drawn one after the other in any *)
(* order, so that the cell's mask takes every value 0x00..0xFF, and the    *)
(* frame presented at any point.                                           *)
(***************************************************************************)
GlyphRows == 1

GlyphCols == 1

CellDots == (0..(VT_CELL_XDOTS - 1)) \X (0..(VT_CELL_YDOTS - 1))

InitGlyphs == InitReset({"linux"}, {<<GlyphRows, GlyphCols>>})

NextGlyphs ==
    \/ call.op \in {"reset", "render_dot"} /\ \E d \in CellDots :
         RenderDot(d[1], d[2], VTR_COLOR_DEFAULT)
    \/ call.op \in {"reset", "render_dot"} /\ SwapBuffers(0, "ok")

SpecGlyphs == InitGlyphs /\ [][NextGlyphs]_vars

\* Bit n of the byte b is set.
BitSet(b, n) == (b \div P2(n)) % 2 = 1

\* C20: the conversion of vtr_swap_buffers takes the 256 masks 0x00..0xFF to
\* 256 distinct bytes of 0x00..0xFF, and the glyph a frame stores for the
\* first cell has the Braille bit of the table set for the dot in column c
\* and row r of the cell exactly when that dot was drawn.
C20_BrailleBijection ==
    /\ {BrailleCell(m) : m \in 0..255} = 0..255
    /\ (call.op = "swap_buffers" /\ call.ret = 0 /\ Front(vt).buffer[0] # 0) =>
         /\ term.screen[0].ch = "braille"
         /\ term.screen[0].v = BrailleCell(Front(vt).buffer[0])
         /\ \A d \in CellDots :
              BitSet(term.screen[0].v, DotBit[d[1] + 1][d[2] + 1])
                <=> BitSet(Front(vt).buffer[0], d[2] + VT_CELL_YDOTS * d[1])

\* Three of the last four dots of the cell, which the conversion moves, are
\* on the screen as dots 5, 7 and 8 of the Braille pattern.
C20_MovedDotsShown ==
    /\ call.op = "swap_buffers" /\ call.ret = 0
    /\ Front(vt).buffer[0] = 8 + 32 + 128
    /\ term.screen[0].v = 64 + 16 + 128

\* The conversion applied n times.
RECURSIVE BrailleCellTimes(_, _)
BrailleCellTimes(n, m) == IF n = 0 THEN m ELSE BrailleCell(BrailleCellTimes(n - 1, m))

\* The Braille byte of the glyph the first cell shows after a frame was
\* presented: the conversion of the cell's mask as the terminal received it.
Shown == term.screen[0].v

\* C21 as amended: for each of the 256 masks of the first cell, the
\* conversion applied four times returns the mask, that is, the Braille
\* byte presented converted three times more is the mask; applied twice it
\* returns the mask exactly when bits 3 and 5 of the mask agree and bits 4
\* and 6 agree.
C21_ConversionOfOrderFour ==
    (call.op = "swap_buffers" /\ call.ret = 0) =>
        LET m == Front(vt).buffer[0]
        IN /\ Shown = BrailleCell(m)
           /\ BrailleCellTimes(3, Shown) = m
           /\ (BrailleCell(Shown) = m)
                <=> (BitSet(m, 3) = BitSet(m, 5) /\ BitSet(m, 4) = BitSet(m, 6))

\* C21 as the specification states it: the conversion applied twice returns
\* the mask, that is, the Braille byte presented converted once more is the
\* cell's mask.
C21_ConversionOwnInverse ==
    (call.op = "swap_buffers" /\ call.ret = 0) =>
        /\ Shown = BrailleCell(Front(vt).buffer[0])
        /\ BrailleCell(Shown) = Front(vt).buffer[0]

\* The frame of the dot in column 0, row 3 of the cell is on the screen as
\* dot 7 of the Braille pattern, which the conversion takes on to bit 5.
C21_BottomLeftDotShown ==
    /\ call.op = "swap_buffers" /\ call.ret = 0
    /\ Front(vt).buffer[0] = 8
    /\ term.screen[0].v = 64
    /\ BrailleCell(term.screen[0].v) = 32

\* The stencil bytes of a canvas on which only the dot (x, y) is set: the
\* bit (1 << (y & 3)) << ((x & 1) * 4) in the cell at row y >> 2, column
\* x >> 1, and zero in every other cell.
OneBit(x, y) ==
    [i \in 0..(vt.nrows * vt.ncols - 1) |->
       IF i = (y \div 4) * vt.ncols + (x \div 2) THEN P2(y % 4) * P2((x % 2) * 4) ELSE 0]

\* The stencil bytes vtr_render_dotc leaves on an empty stencil.
Plotted(x, y, c) ==
    vtr_render_dotc(Kernel(ZeroStencil(Back(vt))), vt.xdots, vt.ydots, x, y, c).sb.buffer

\* C22: vtr_render_dotc of a dot (x, y) inside the canvas on an empty buffer
\* sets the one bit (1 << (y & 3)) << ((x & 1) * 4) of the cell at row
\* y >> 2 and column x >> 1 and leaves every other cell zero; no other dot
\* inside the canvas gives the same bytes; and the same dot drawn once more
\* leaves the bytes as they are.
C22_DotSetsItsBit ==
    [][(Calls("render_dot") /\ InCanvas(call'.args[1], call'.args[2])) =>
         LET x == call'.args[1]
             y == call'.args[2]
         IN /\ Untouched =>
                 /\ Back(vt').buffer = OneBit(x, y)
                 /\ \A x2 \in 0..(vt.xdots - 1), y2 \in 0..(vt.ydots - 1) :
                      <<x2, y2>> # <<x, y>> => Plotted(x2, y2, call'.args[3]) # Back(vt').buffer
            /\ (call.op = "render_dot" /\ call.args = call'.args) =>
                 Back(vt').buffer = Back(vt).buffer]_vars

\* The dot in the bottom right corner of the canvas was drawn twice and is
\* bit 7 of the last cell, every other cell being zero.
C22_CornerDotDrawnTwice ==
    /\ call.op = "render_dot" /\ old.op = "render_dot"
    /\ call.args = <<vt.xdots - 1, vt.ydots - 1, VTR_COLOR_TOTAL - 1>>
    /\ Back(vt).buffer = OneBit(vt.xdots - 1, vt.ydots - 1)
    /\ Back(vt).buffer[vt.nrows * vt.ncols - 1] = 128

(***************************************************************************)
(* Properties of the calls of one frame taken in either order (checked     *)
(* under SpecFrames, where a frame is drawn with at most two calls).       *)
(***************************************************************************)
\* The kernel call c = [op, args, env] made on the stencil sb.
Draw(sb, c) ==
    IF c.op = "render_dot"
    THEN vtr_render_dotc(Kernel(sb), vt.xdots, vt.ydots, c.args[1], c.args[2], c.args[3])
    ELSE IF c.op = "scan_line"
    THEN vtr_scan_linec(Kernel(sb), vt.xdots, vt.ydots, c.args[1], c.args[2],
                        c.args[3], c.args[4], c.args[5], c.env)
    ELSE vtr_trace_polyc(Kernel(sb), vt.xdots, vt.ydots, c.args[1], c.args[2], c.env).k

\* The colour a kernel call draws with.
ColourOf(c) == c.args[Len(c.args)]

\* The cells the next vtr_swap_buffers stores into when the back stencil is sb.
Emitted(sb) ==
    LET w  == SwapStream(sb, Front(vt), vt.nrows, vt.ncols, vt.seqcap, 0)
        st == StoreLog(NewTerm({}, vt.nrows, vt.ncols), w.seq, <<>>, <<>>)
    IN {st[j].cell : j \in 1..Len(st)}

\* The call plots a dot in cell i.
PlotsIn(dots, i) ==
    \E d \in dots : (d[2] \div VT_CELL_YDOTS) * vt.ncols + (d[1] \div VT_CELL_XDOTS) = i

\* The second kernel call of a frame is made: the step from the stencil
\* with the first call in it to the stencil with both.
SecondDraw ==
    /\ Presented(old) /\ call.op \in Kernels /\ fault = ""
    /\ call'.op \in Kernels /\ fault' = ""
    /\ <<vt, call, sys, old>>' # <<vt, call, sys, old>>

\* The stencil of the two calls of the frame made in the other order.
OtherOrder == Draw(Draw(ZeroStencil(Back(vt)), call').sb, call).sb

\* What holds of the two orders ab and ba of a first call with the dots da
\* and a second call with the dots db.
OrdersAgreeButForColour(ab, ba, ea, eb, da, db) ==
    /\ ab.buffer = ba.buffer
    /\ \A i \in 0..(vt.nrows * vt.ncols - 1) :
         /\ ((i \in ea) # (i \in eb)) =>
              /\ PlotsIn(da, i) /\ PlotsIn(db, i)
              /\ ColourOf(call) # ColourOf(call')
              /\ ab.buffer[i] = Front(vt).buffer[i]
         /\ (PlotsIn(db, i) /\ ab.buffer[i] = Front(vt).buffer[i]
               /\ Front(vt).textoverlay[i] = 0)
              => ((i \in ea) <=> ColourOf(call') # Front(vt).fgcolors[i])

\* C23 as amended: the two calls of a frame made in the other order leave
\* the same masks, and the next vtr_swap_buffers stores into the same cells
\* except for cells in which both calls plot, in different colours, and
\* whose mask is the mask of the frame on the screen; such a cell is stored
\* exactly when the colour of the call made last differs from the colour the
\* cell has on the screen.
C23_OrderDecidesColourOnly ==
    [][SecondDraw =>
         \E ba \in {OtherOrder} :
           \E ea \in {Emitted(Back(vt'))}, eb \in {Emitted(ba)} :
             OrdersAgreeButForColour(Back(vt'), ba, ea, eb, call.dots, call'.dots)]_vars

\* C23 as the specification states it: the two calls of a frame made in the
\* other order make the next vtr_swap_buffers store into the same cells.
C23_OrderKeepsEmittedCells ==
    [][SecondDraw => Emitted(Back(vt')) = Emitted(OtherOrder)]_vars

\* The screen shows the dots (0, 0) and (1, 0) in red; the frame drawn next
\* has the red dot first and the dot in the default colour second, so the
\* first cell will be stored, while in the other order it would not be.
C23_SameDotsOtherColourLast ==
    /\ call.op = "render_dot" /\ call.args = <<0, 0, VTR_COLOR_DEFAULT>>
    /\ old.op = "render_dot"
    /\ Back(vt).buffer[0] = 17 /\ Back(vt).fgcolors[0] = VTR_COLOR_DEFAULT
    /\ Front(vt).buffer[0] = 17 /\ Front(vt).fgcolors[0] = VTR_COLOR_RED
    /\ Front(vt).textoverlay[0] = 0
    /\ 0 \in Emitted(Back(vt))
    /\ 0 \notin Emitted([Back(vt) EXCEPT !.fgcolors[0] = VTR_COLOR_RED])

(***************************************************************************)
(* Specification SpecSignal: the frame loop of a canvas that was reset,    *)
(* with the window resized at any moment.  SIGWINCH runs the host's        *)
(* handler, which calls vtr_set_resize_pending, between any two steps of   *)
(* the main loop, also inside vtr_resize: phase is "resize_query" after    *)
(* vtr_resize has tested the flag and "resize_alloc" after its size query  *)
(* (sys holds the answer), until it returns.                               *)
(***************************************************************************)
InResize == {"resize_query", "resize_alloc"}

\* The window takes another size and handle_signal(SIGWINCH) runs.
Sigwinch(sz) ==
    /\ phase \in {"drawing"} \cup InResize
    /\ <<term.rows, term.cols>> # sz
    /\ term' = [term EXCEPT !.rows = sz[1], !.cols = sz[2],
                            !.screen = BlankScreen(sz[1], sz[2]), !.pos = 0]
    /\ vt' = [vt EXCEPT !.resize_pending = TRUE]
    /\ UNCHANGED <<platform, heap, phase, fault, call, sys, old, attrs0>>

\* if (!vt->resize_pending) return 0;
ResizeEnter ==
    /\ phase = "drawing"
    /\ IF ~vt.resize_pending
       THEN /\ Called("resize", <<>>, <<>>, 0, <<>>, {})
            /\ Alive
       ELSE /\ phase' = "resize_query"
            /\ sys' = <<>>
            /\ UNCHANGED <<platform, fault, call, old, attrs0>>
    /\ UNCHANGED <<vt, heap, term>>

\* ioctl(vt->fd, TIOCGWINSZ, &ws), which succeeds.
ResizeQuery ==
    /\ phase = "resize_query"
    /\ phase' = "resize_alloc"
    /\ sys' = <<[fn |-> "winsize", arg |-> <<term.rows, term.cols>>, res |-> 0]>>
    /\ UNCHANGED <<platform, vt, heap, term, fault, call, old, attrs0>>

\* The rest of vtr_resize with the size ws it was given, every allocation
\* and the write succeeding.
ResizeCommit ==
    /\ phase = "resize_alloc"
    /\ LET ws == sys[1].arg
           e  == [ioctl |-> "ok", failk |-> 0, w |-> "ok", ub |-> "silent"]
           r  == vtr_resize(vt, heap, [term EXCEPT !.rows = ws[1], !.cols = ws[2]], e)
           s  == sendseq([sys |-> sys, term |-> term], SeqClearScreen, e.w)
       IN /\ vt' = r.vt
          /\ heap' = r.h
          /\ term' = s.term
          /\ Called("resize", <<>>, e, r.ret, s.sys, {})
    /\ phase' = "drawing"
    /\ UNCHANGED fault

InitSignal == InitReset({"linux"}, Sizes)

NextSignal ==
    \/ \E sz \in Sizes : Sigwinch(sz)
    \/ ResizeEnter
    \/ ResizeQuery
    \/ ResizeCommit
    \/ RenderDot(0, 0, VTR_COLOR_DEFAULT)
    \/ SwapBuffers(0, "ok")

SpecSignal == InitSignal /\ [][NextSignal]_vars

\* C24: whenever vtr_resize has returned, the flag is set or the canvas has
\* the size the terminal had when the handler last ran, which is the size
\* it has now, however the handler's runs fell among the steps of
\* vtr_resize.
C24_NotificationNotLost ==
    (phase = "drawing" /\ call.op = "resize") =>
        \/ vt.resize_pending
        \/ <<vt.nrows, vt.ncols>> = <<term.rows, term.cols>>

\* C25: vtr_trace_polyc on three or more vertices that pass the cross-product
\* loop never meets a third distinct intercept on a scan line: the assertion
\* ncepts < 2 holds whenever an intercept is stored.
C25_AtMostTwoIntercepts ==
    (call.op = "trace_poly" /\ Len(call.args[1]) >= 3
        /\ ~CrossRejects(call.args[1], 0, 0))
      => fault # "assert ncepts"

\* m | n for two bytes.
ByteOr(m, n) ==
    LET bit(j) == IF BitSet(m, j) \/ BitSet(n, j) THEN P2(j) ELSE 0
    IN bit(0) + bit(1) + bit(2) + bit(3) + bit(4) + bit(5) + bit(6) + bit(7)

\* The mask of the dots of the set dots that lie in cell i.
RECURSIVE BitsIn(_, _)
BitsIn(dots, i) ==
    IF dots = {} THEN 0
    ELSE LET d == CHOOSE e \in dots : TRUE
             m == BitsIn(dots \ {d}, i)
         IN IF PlotsIn({d}, i)
            THEN ByteOr(m, P2((d[2] % VT_CELL_YDOTS) + VT_CELL_YDOTS * (d[1] % VT_CELL_XDOTS)))
            ELSE m

\* What a kernel call that plotted the dots db in colour c made of the
\* stencil sb: sb1.
OrsDots(sb, sb1, db, c) ==
    /\ \A i \in 0..(vt.nrows * vt.ncols - 1) :
         /\ sb1.buffer[i] = ByteOr(sb.buffer[i], BitsIn(db, i))
         /\ sb1.fgcolors[i] = IF PlotsIn(db, i) THEN c ELSE sb.fgcolors[i]
    /\ sb1.textoverlay = sb.textoverlay

\* C26: every kernel call of a frame leaves in each cell of the back stencil
\* the mask it had or-ed with the bits of the dots the call plotted in the
\* cell, and the call's colour in the cells it plotted in and the colour
\* they had in the others; the frame starts from masks 0 and colours
\* DEFAULT; and two calls made in the other order leave the same masks, with
\* the colour of the call then made last in the cells it plots in.
C26_MasksOrColoursLast ==
    [][/\ (call'.op \in Kernels /\ fault' = ""
             /\ <<vt, call, sys, old>>' # <<vt, call, sys, old>>)
          => OrsDots(Back(vt), Back(vt'), call'.dots, ColourOf(call'))
       /\ (Calls("swap_buffers") /\ call'.ret = 0)
          => AllZero(Back(vt'), vt.nrows, vt.ncols)
       /\ SecondDraw
          => \E ba \in {OtherOrder} :
               /\ ba.buffer = Back(vt').buffer
               /\ \A i \in 0..(vt.nrows * vt.ncols - 1) :
                    ba.fgcolors[i] = IF PlotsIn(call.dots, i) THEN ColourOf(call)
                                     ELSE Back(vt').fgcolors[i]]_vars

\* The dot (0, 0) in the default colour and then the dot (1, 0) in red were
\* drawn into one frame: the first cell has both bits and is red, every
\* other cell has mask 0 and the default colour.
C26_TwoDotsOneCell ==
    /\ call.op = "render_dot" /\ call.args = <<1, 0, VTR_COLOR_RED>>
    /\ old.op = "render_dot"
    /\ Back(vt).buffer[0] = 17 /\ Back(vt).fgcolors[0] = VTR_COLOR_RED
    /\ \A i \in 1..(vt.nrows * vt.ncols - 1) :
         Back(vt).buffer[i] = 0 /\ Back(vt).fgcolors[i] = VTR_COLOR_DEFAULT

(***************************************************************************)
(* Properties of the two stencils (checked under SpecFrames).              *)
(***************************************************************************)
Drawers == Kernels \cup {"print_text"}

\* C27: a call of render_dot, scan_line, trace_poly or print_text leaves the
\* designation and the front stencil, the frame presented last, as they
\* were; a swap_buffers that returned 0 has toggled the designation, and the
\* stencil it presented is the front stencil with its contents as drawn.
C27_DrawersWriteBackOnly ==
    [][/\ (call'.op \in Drawers /\ <<vt, call, sys, old>>' # <<vt, call, sys, old>>)
            => /\ vt'.cur_sb = vt.cur_sb
               /\ vt'.sb[3 - vt.cur_sb] = vt.sb[3 - vt.cur_sb]
       /\ (Calls("swap_buffers") /\ call'.ret = 0)
            => /\ vt'.cur_sb = 3 - vt.cur_sb
               /\ vt'.sb[vt.cur_sb] = vt.sb[vt.cur_sb]]_vars

\* A frame with dots was presented and the next frame is being drawn into
\* the other stencil: both stencils hold dots, and they differ.
C27_DrawingBehindPresentedFrame ==
    /\ call.op \in Drawers /\ call.ret = 0 /\ fault = ""
    /\ old.op = "swap_buffers" /\ old.ret = 0
    /\ \E i \in 0..(vt.nrows * vt.ncols - 1) : vt.sb[3 - vt.cur_sb].buffer[i] # 0
    /\ \E i \in 0..(vt.nrows * vt.ncols - 1) :
         vt.sb[vt.cur_sb].buffer[i] # 0 \/ vt.sb[vt.cur_sb].textoverlay[i] # 0
    /\ vt.sb[1] # vt.sb[2]

(***************************************************************************)
(* Properties of the sequence buffer (checked under SpecFrames).           *)
(***************************************************************************)
\* The walk state before the first cell: the colour reset is in the stream.
StreamStart(seqcap) ==
    Emit([seq |-> <<>>, seqcap |-> seqcap, cur_fgc |-> VTR_COLOR_DEFAULT,
          cell_skipped |-> TRUE, nrealloc |-> 0, status |-> "ok"],
         set_foreground_color_s(seqcap, VTR_COLOR_DEFAULT))

\* The cell loop from cell idx on, with the cells numbered d[1] rows and
\* d[2] columns further down the screen.  good: before the bytes of each
\* emitted cell were appended more than the slack was free, the cell
\* appended fewer bytes than the slack, and the stream fits the buffer.
RECURSIVE SlackWalk(_, _, _, _, _, _, _, _)
SlackWalk(w, cur, prev, idx, nrows, ncols, d, good) ==
    IF idx = nrows * ncols \/ w.status # "ok" THEN [w |-> w, good |-> good]
    ELSE LET w1 == ExtendIfNeeded(w, 0)
             wn == DiffCell(w, cur, prev, idx, (idx \div ncols) + 1 + d[1],
                            (idx % ncols) + 1 + d[2], 0)
             n  == Len(wn.seq) - Len(w.seq)
         IN SlackWalk(wn, cur, prev, idx + 1, nrows, ncols, d,
                      /\ good
                      /\ Len(wn.seq) <= wn.seqcap
                      /\ n > 0 => /\ SeqRoom(w1) > VT_MIN_SEQLIST_SLACK
                                  /\ n < VT_MIN_SEQLIST_SLACK)

\* C28: in every vtr_swap_buffers whose reallocations succeed no encoder
\* finds its bytes not to fit, more than 64 bytes are free before the bytes
\* of each emitted cell are appended, and a cell appends fewer than 64
\* bytes; the same holds when the cells of the frame are the last cells of
\* a screen of 65535 rows and columns, where the cursor move is longest.
C28_StreamFitsBuffer ==
    [][(Calls("swap_buffers") /\ call'.env.failext = 0)
         => /\ fault' = ""
            /\ \E here \in {SlackWalk(StreamStart(vt.seqcap), Back(vt), Front(vt), 0,
                                      vt.nrows, vt.ncols, <<0, 0>>, TRUE)} :
                 /\ here.good /\ here.w.status = "ok"
                 /\ here.w.seqcap = vt'.seqcap
            /\ \E far \in {SlackWalk(StreamStart(vt.seqcap), Back(vt), Front(vt), 0,
                                     vt.nrows, vt.ncols,
                                     <<U16 - 1 - vt.nrows, U16 - 1 - vt.ncols>>, TRUE)} :
                 far.good /\ far.w.status = "ok"]_vars

\* A frame in which every cell changed was presented: the buffer was
\* extended once, and the stream left fewer bytes free than the buffer had
\* at first.
C28_BufferExtendedForFrame ==
    /\ call.op = "swap_buffers" /\ call.ret = 0 /\ call.env.failext = 0
    /\ vt.seqcap = 2 * VT_SEQLIST_BUFFER_SIZE(vt.nrows, vt.ncols)
    /\ sys # <<>> /\ Len(sys[1].arg) > VT_SEQLIST_BUFFER_SIZE(vt.nrows, vt.ncols) \div 2

\* C29: a vtr_swap_buffers in which growing the sequence buffer fails
\* returns -ENOMEM without a write to the terminal, and leaves the canvas
\* as it was but for the capacity, which is the size of the buffer that the
\* reallocations before the failing one left: both stencils, the
\* designation and the screen are unchanged.
C29_FailedGrowthKeepsCanvas ==
    [][(Calls("swap_buffers") /\ call'.ret = -ENOMEM)
         => /\ sys' = <<>> /\ term' = term
            /\ vt'.sb = vt.sb /\ vt'.cur_sb = vt.cur_sb
            /\ vt'.seqcap = vt.seqcap * P2(call'.env.failext - 1)
            /\ [vt' EXCEPT !.seqcap = 0] = [vt EXCEPT !.seqcap = 0]
            /\ heap' = heap /\ fault' = ""]_vars

\* A frame with dots in it was refused for want of memory: the dots are
\* still in the back stencil and the capacity is the one of creation.
C29_FrameRefused ==
    /\ call.op = "swap_buffers" /\ call.ret = -ENOMEM /\ sys = <<>>
    /\ old.op \in Drawers
    /\ \E i \in 0..(vt.nrows * vt.ncols - 1) : Back(vt).buffer[i] # 0
    /\ vt.seqcap = VT_SEQLIST_BUFFER_SIZE(vt.nrows, vt.ncols)

(***************************************************************************)
(* Properties of the heap (checked under SpecFaults).                      *)
(***************************************************************************)
\* C30: on every path of vtr_resize on which an allocation fails, each
\* block allocated in the call is released exactly once: free is never
\* handed a block that is not allocated, and the blocks allocated after
\* the call are those allocated before it.
C30_FailedAllocationFreesOnce ==
    [][(Calls("resize") /\ vt.resize_pending /\ call'.env.ioctl = "ok"
            /\ call'.env.failk # 0)
          => (~heap'.bad /\ heap'.live = heap.live)]_vars

====
